---------------------------- MODULE Spec2Model ----------------------------
(***************************************************************************)
(* Model of the booking orchestration engine of hdulib:                    *)
(*   utils/models.py           BookingTask, BookingResult                  *)
(*   utils/booking_service.py  BookingService                              *)
(*   utils/api_client.py       RoomsCacheManager, LibraryAPIClient         *)
(* and of the legacy entry point:                                          *)
(*   main.py, utils/hdulib.py  create_task_from_config, run, main, HDULIB  *)
(*                                                                         *)
(* Specifications:                                                         *)
(*   SpecSplit  _split_long_duration_task applied to bounded inputs        *)
(*   SpecCreate create_tasks_from_config applied to bounded inputs         *)
(*   SpecCache  get_rooms_dict / clear_rooms_cache called by concurrent    *)
(*              clients that interleave at their await points              *)
(*   Spec       one run_booking_task pipeline                              *)
(*   SpecPair   two run_booking_task pipelines under way at once           *)
(*   SpecBatch, SpecBatchCancel, SpecBatchWindow, SpecResults              *)
(*              run_multiple_tasks over a list of tasks                    *)
(*   SpecRetry  run_booking_with_retry                                     *)
(*   SpecLive   run_multiple_tasks and its pipelines under fairness        *)
(*   SpecLegacyCreate, SpecLegacy                                          *)
(*              the legacy create_task_from_config and main                *)
(*                                                                         *)
(* Time is local wall-clock time in whole seconds since the Unix epoch;    *)
(* the local zone is taken to have a fixed offset of zero.                 *)
(***************************************************************************)
EXTENDS Integers, Sequences, FiniteSets, TLC

VARIABLES
    \* ---- _split_long_duration_task
    splitTask,      \* the BookingTask handed to _split_long_duration_task
    splitNow,       \* datetime.now() read by the conversion
    splitOut,       \* the returned list of tasks
    splitPc,        \* "ready" | "called" | "done" | "raised"
    configDict,     \* the config_dict handed to create_tasks_from_config
    \* ---- the legacy entry point, main.py
    lgMain,         \* where main() stands
    lgTasks,        \* the list parse_config returned
    lgRun,          \* per task of that list: the state of its run(task)
    lgRooms,        \* HDULIB.rooms: None or the topology fetched
    \* ---- the clock
    now,            \* datetime.now()
    \* ---- RoomsCacheManager (one per process)
    cache,          \* _cache: None or a topology
    cacheTimestamp, \* _cache_timestamp: None or a time
    asyncLock,      \* _async_lock: 0 when free, else the client holding it
    \* ---- LibraryAPIClient.get_rooms_dict, per client
    grdPc,          \* where the client stands inside get_rooms_dict
    grdForce,       \* the force_refresh argument
    grdIdx,         \* index of the room the running loop is at
    grdRooms,       \* query_rooms: names of the rooms collected so far
    grdResult,      \* query_seats: the topology built so far (new_data)
    grdRet,         \* value returned by the last call
    \* ---- bookkeeping of what happened (read by the properties only)
    callCount,      \* calls of get_rooms_dict so far
    fetchCount,     \* external topology fetches started so far
    cacheReaders,   \* clients whose get_cache has run
    grdFetch,       \* number of the fetch the client's call is running, 0 if none
    grdApiFailed,   \* the endpoint of a failed request of the call's fetch, or ""
    \* ---- BookingService.run_booking_task, per pipeline (client)
    ptask,          \* task: the BookingTask of the pipeline
    pc,             \* where the pipeline stands
    uid,            \* client.uid ("" for None)
    seatId,         \* seat_id, -1 before get_seat_id has returned
    attempt,        \* the loop variable of _attempt_booking
    lastError,      \* last_error_message
    windowWait,     \* wait_seconds of _wait_for_booking_window, 0 if no sleep
    presult,        \* the BookingResult returned
    \* ---- bookkeeping of what the pipeline did (read by the properties only)
    loginCalls,     \* login calls issued
    reserveCalls,   \* confirm_seat calls issued
    attemptSleeps,  \* asyncio.sleep calls of _attempt_booking
    sleptSeconds,   \* seconds asked of them in total
    lastErrorAt,    \* the attempt (from 1) that last set last_error_message
    reserveUid,     \* seatBookers[0] of the run's latest reserve request, or ""
    reserveRequest, \* the run's latest reserve request: its fields and Api-Token
    cancelledAt,    \* where the run was suspended when it was cancelled, or ""
    \* ---- BookingService.run_multiple_tasks
    batchTasks,     \* tasks: the list handed to run_multiple_tasks
    batchPc,        \* "ready" | "gathering" | "returned"
    semValue,       \* the free slots of the semaphore
    btPc,           \* per task: "pending" | "running" | "done"
    gathered,       \* per task: what bounded_task handed to gather
    batchOut,       \* the list run_multiple_tasks returned
    btRaised,       \* tasks whose pipeline raised (read by the properties)
    btOutOfOrder,   \* a pipeline ended while an earlier task's still ran
    btCancelled,    \* the cancellations: which task, and where it was suspended
    \* ---- run_booking_with_retry
    retryPc,        \* "idle" | "ready" | "running" | "backoff" | "returned" | "raised"
    retryG,         \* global_max_retries as passed by the caller
    globalAttempt,  \* global_attempt
    lastResult,     \* last_result
    retryOut,       \* the result run_booking_with_retry returned
    runCount,       \* calls of run_booking_task made
    backoffLog      \* the seconds of each sleep between global attempts

legacyVars == <<lgMain, lgTasks, lgRun, lgRooms>>
splitVars == <<splitTask, splitNow, splitOut, splitPc, configDict, legacyVars>>
cacheVars == <<cache, cacheTimestamp, asyncLock>>
grdVars == <<grdPc, grdForce, grdIdx, grdRooms, grdResult, grdRet>>
ghostVars == <<callCount, fetchCount, cacheReaders, grdFetch, grdApiFailed>>

pipeVars == <<ptask, pc, uid, seatId, attempt, lastError, windowWait, presult>>
pipeLog == <<loginCalls, reserveCalls, attemptSleeps, sleptSeconds, lastErrorAt,
            reserveUid, reserveRequest, cancelledAt>>
retryVars == <<retryPc, retryG, globalAttempt, lastResult, retryOut, runCount,
               backoffLog>>

batchVars == <<batchTasks, batchPc, semValue, btPc, gathered, batchOut, btRaised,
               btOutOfOrder, btCancelled>>

\* What the actions of the cache and of get_rooms_dict leave alone.
outsideVars == <<splitVars, pipeVars, pipeLog, batchVars, retryVars>>

vars == <<splitVars, now, cacheVars, grdVars, ghostVars, pipeVars, pipeLog,
          batchVars, retryVars>>

None == "None"

Min(a, b) == IF a <= b THEN a ELSE b

\* ------------------------------------------------------------------ time

SecondsPerHour == 60 * 60
SecondsPerDay == 24 * SecondsPerHour

\* 00:00:00 local of the first day the model looks at (2022-01-08).
Epoch == 19000 * SecondsPerDay

DateOf(t) == t \div SecondsPerDay
HourOf(t) == (t % SecondsPerDay) \div SecondsPerHour

\* datetime.replace(hour=h, minute=0, second=0, microsecond=0)
ReplaceHour(t, h) == DateOf(t) * SecondsPerDay + h * SecondsPerHour

\* The last second a datetime can hold (the end of year 9999).  The clock of
\* the model is 32 bits wide; its last value stands for that second and for
\* every timestamp after it.
MaxDatetime == 2147483647

\* datetime.fromtimestamp(t) raises for a timestamp outside the range of
\* datetime.
FromTimestampRaises(t) == t >= MaxDatetime

\* ---------------------------------------------------------- BookingTask

MinDuration == 1
MaxDuration == 12
MaxHourFormat == 23
MinTimestamp == 1000000000
CappedHours == 4
ShortDaysAhead == 1
DefaultDaysAhead == 2

\* The floor identifiers the model draws from: the two capped floors, an
\* ordinary mapped floor, a floor no table maps, a floor only the room
\* table maps, and an identifier that is not a number.
FloorIds == {"1547", "1548", "1001", "2001", "3001", "east"}

\* int(self.floor_id) if self.floor_id.isdigit() else 0
FloorIdInt(f) ==
    CASE f = "1547" -> 1547
      [] f = "1548" -> 1548
      [] f = "1001" -> 1001
      [] f = "2001" -> 2001
      [] f = "3001" -> 3001
      [] OTHER -> 0

CappedFloors == {1547, 1548}

DaysAhead(task) ==
    IF FloorIdInt(task.floor_id) \in CappedFloors
    THEN ShortDaysAhead ELSE DefaultDaysAhead

MaxDurationPerTaskUncapped(task) == task.duration

MaxDurationPerTask(task) ==
    IF FloorIdInt(task.floor_id) \in CappedFloors
    THEN Min(CappedHours, task.duration)
    ELSE task.duration

\* validate_begin_time
ValidBeginTime(v) == (0 <= v /\ v <= MaxHourFormat) \/ v > MinTimestamp

\* ------------------------------------------- _split_long_duration_task

ConvertBeginTimeNever(task, dtnow) == task.begin_time

ConvertBeginTimeSameDay(task, dtnow) ==
    IF task.begin_time <= MaxHourFormat
    THEN ReplaceHour(dtnow, task.begin_time)
    ELSE task.begin_time

\* lines 58-70: an hour-format begin_time becomes a timestamp
ConvertBeginTime(task, dtnow) ==
    IF task.begin_time <= MaxHourFormat
    THEN ReplaceHour(dtnow + DaysAhead(task) * SecondsPerDay, task.begin_time)
    ELSE task.begin_time

TaskDurationNoMin(task, remaining) == MaxDurationPerTask(task)

\* line 86
TaskDuration(task, remaining) == Min(remaining, MaxDurationPerTask(task))

NextBeginTimeInHours(begin, d) == begin + d

\* line 99: current_begin_time += task_duration * 3600
NextBeginTime(begin, d) == begin + d * SecondsPerHour

RECURSIVE SplitLoop(_, _, _, _)
\* lines 85-99: the while loop
SplitLoop(task, remaining, begin, acc) ==
    IF remaining > 0
    THEN LET d == TaskDuration(task, remaining)
         IN  IF d <= 0
             THEN acc
             ELSE SplitLoop(task, remaining - d, NextBeginTime(begin, d),
                            Append(acc, [task EXCEPT !.begin_time = begin,
                                                     !.duration = d]))
    ELSE acc

SplitLongDurationTask(task, dtnow) ==
    LET current_begin_time == ConvertBeginTime(task, dtnow)
    IN  IF task.duration <= MaxDurationPerTask(task)
        THEN <<[task EXCEPT !.begin_time = current_begin_time]>>
        ELSE LET tasks == SplitLoop(task, task.duration, current_begin_time, <<>>)
             IN  IF tasks = <<>> THEN <<task>> ELSE tasks

\* ---------------------------------------------------------- the clock

ClockStart == Epoch + 9 * SecondsPerHour
ClockStep == 30 * 60
MaxTicks == 2

InitClock == now = ClockStart

\* ------------------------------------------------------------ topology

\* The rooms the category list names, in its order.
RoomItems == <<"R1", "R2">>

\* What the booking API answers for a room: floor name -> seat title -> id.
WorldFloors(room) ==
    CASE room = "R1" -> [F1 |-> ("12" :> 101 @@ "13" :> 102)]
      [] room = "R2" -> [F2 |-> ("12" :> 201)]

\* A topology is the set of rooms it holds (each with the floors above)
\* and the number of the fetch that produced it.
Topology(rooms, fetch) == [rooms |-> rooms, fetch |-> fetch]

\* line 205: return {}
EmptyDict == Topology({}, 0)

\* None where a topology may stand (_cache, a return value), and the mark of
\* a call that ended by raising; None where a time may stand.
NoTopology == Topology({}, -1)
Raised == Topology({}, -2)
NoTime == -1

\* ------------------------------------------------------ RoomsCacheManager

CacheTtl == 1 * SecondsPerHour

Clients == {1, 2}

InitCache ==
    /\ cache = NoTopology
    /\ cacheTimestamp = NoTime
    /\ asyncLock = 0

IsCacheValidNoTtl == cache # NoTopology /\ cacheTimestamp # NoTime

IsCacheValidNever == FALSE

\* _is_cache_valid, lines 52-57
IsCacheValid ==
    /\ cache # NoTopology
    /\ cacheTimestamp # NoTime
    /\ now - cacheTimestamp < CacheTtl

\* refresh_cache, lines 70-82, once fetch_func has ended: what is stored and
\* what is returned.  outcome is "data" (fetch_func returned new_data) or
\* "raised" (fetch_func raised).
RefreshCacheStored(outcome, new_data, old) ==
    IF outcome = "data" THEN new_data ELSE old

RefreshCacheReturned(outcome, new_data, old) ==
    IF outcome = "data" THEN new_data
    ELSE IF old # NoTopology THEN old ELSE Raised

\* ------------------------------------------------------ LibraryAPIClient

InitClients ==
    /\ grdPc = [c \in Clients |-> "idle"]
    /\ grdForce = [c \in Clients |-> FALSE]
    /\ grdIdx = [c \in Clients |-> 0]
    /\ grdRooms = [c \in Clients |-> {}]
    /\ grdResult = [c \in Clients |-> EmptyDict]
    /\ grdRet = [c \in Clients |-> NoTopology]
    /\ callCount = 0
    /\ fetchCount = 0
    /\ cacheReaders = {}
    /\ grdFetch = [c \in Clients |-> 0]
    /\ grdApiFailed = [c \in Clients |-> ""]

MaxCalls == 3

InsideGrd(c) == grdPc[c] \notin {"idle", "returned"}

\* get_rooms_dict is entered (line 182).
EnterGetRoomsDict(c, force) ==
    /\ grdForce' = [grdForce EXCEPT ![c] = force]
    /\ grdPc' = [grdPc EXCEPT ![c] = IF force THEN "refresh_cache" ELSE "get_cache"]
    /\ grdIdx' = [grdIdx EXCEPT ![c] = 0]
    /\ grdRooms' = [grdRooms EXCEPT ![c] = {}]
    /\ grdResult' = [grdResult EXCEPT ![c] = EmptyDict]
    /\ grdRet' = [grdRet EXCEPT ![c] = NoTopology]
    /\ grdFetch' = [grdFetch EXCEPT ![c] = 0]
    /\ grdApiFailed' = [grdApiFailed EXCEPT ![c] = ""]
    /\ callCount' = callCount + 1

\* fetch_rooms_data starts: query_rooms sends the category_list request
\* (lines 191-193, 216).
StartFetch(c) ==
    /\ fetchCount' = fetchCount + 1
    /\ grdFetch' = [grdFetch EXCEPT ![c] = fetchCount + 1]

\* get_cache (lines 37-43) and, on a miss, the start of the fetch of the
\* not-forced branch (lines 185-200).  The lock section holds no await.
GetCache(c) ==
    /\ grdPc[c] = "get_cache"
    /\ asyncLock = 0
    /\ cacheReaders' = cacheReaders \cup {c}
    /\ IF IsCacheValid
       THEN /\ grdRet' = [grdRet EXCEPT ![c] = cache]
            /\ grdPc' = [grdPc EXCEPT ![c] = "returned"]
            /\ UNCHANGED <<fetchCount, grdFetch>>
       ELSE /\ StartFetch(c)
            /\ grdPc' = [grdPc EXCEPT ![c] = "category_list"]
            /\ UNCHANGED grdRet
    /\ UNCHANGED <<outsideVars, now, cacheVars, grdForce, grdIdx, grdRooms,
                   grdResult, grdApiFailed, callCount>>

\* refresh_cache takes the lock and calls fetch_func (lines 68-71).
RefreshCacheEnter(c) ==
    /\ grdPc[c] = "refresh_cache"
    /\ asyncLock = 0
    /\ asyncLock' = c
    /\ StartFetch(c)
    /\ grdPc' = [grdPc EXCEPT ![c] = "category_list"]
    /\ UNCHANGED <<outsideVars, now, cache, cacheTimestamp, grdForce, grdIdx,
                   grdRooms, grdResult, grdRet, cacheReaders, grdApiFailed,
                   callCount>>

\* fetch_rooms_data has returned new_data.  Forced: the rest of
\* refresh_cache (lines 72-75).  Not forced: set_cache is awaited next
\* (line 201).
FetchReturned(c, new_data) ==
    /\ grdIdx' = [grdIdx EXCEPT ![c] = 0]
    /\ grdRooms' = [grdRooms EXCEPT ![c] = {}]
    /\ IF grdForce[c]
       THEN /\ cache' = RefreshCacheStored("data", new_data, cache)
            /\ cacheTimestamp' = now
            /\ asyncLock' = 0
            /\ grdRet' = [grdRet EXCEPT ![c] =
                             RefreshCacheReturned("data", new_data, cache)]
            /\ grdPc' = [grdPc EXCEPT ![c] = "returned"]
            /\ grdResult' = [grdResult EXCEPT ![c] = EmptyDict]
            /\ grdFetch' = [grdFetch EXCEPT ![c] = 0]
       ELSE /\ grdPc' = [grdPc EXCEPT ![c] = "set_cache"]
            /\ grdResult' = [grdResult EXCEPT ![c] = new_data]
            /\ UNCHANGED <<cacheVars, grdRet, grdFetch>>

\* The first room of RoomItems after position i that query_rooms collected.
NextCollected(rooms, i) ==
    LET later == {j \in (i + 1)..Len(RoomItems) : RoomItems[j] \in rooms}
    IN  IF later = {} THEN 0 ELSE CHOOSE j \in later : \A k \in later : j <= k

QuerySeatsNoRoomsRaises(fetch) == Raised

\* query_seats without rooms (lines 276-278): return {}
QuerySeatsNoRooms(fetch) == Topology({}, fetch)

\* query_rooms has returned rooms; query_seats(rooms) starts (lines 194,
\* 276-278, 292-312).
QuerySeatsStart(c, rooms) ==
    IF rooms = {}
    THEN FetchReturned(c, QuerySeatsNoRooms(grdFetch[c]))
    ELSE /\ grdRooms' = [grdRooms EXCEPT ![c] = rooms]
         /\ grdResult' = [grdResult EXCEPT ![c] = Topology({}, grdFetch[c])]
         /\ grdIdx' = [grdIdx EXCEPT ![c] = NextCollected(rooms, 0)]
         /\ grdPc' = [grdPc EXCEPT ![c] = "query_seats"]
         /\ UNCHANGED <<cacheVars, grdRet, grdFetch>>

\* The category_list request ends (lines 216-233): an error or a malformed
\* answer ends query_rooms with no rooms.
CategoryListReply(c, ok) ==
    /\ grdPc[c] = "category_list"
    /\ grdApiFailed' = [grdApiFailed EXCEPT ![c] =
                           IF ok THEN "" ELSE "category_list"]
    /\ IF ok
       THEN /\ grdPc' = [grdPc EXCEPT ![c] = "query_room"]
            /\ grdIdx' = [grdIdx EXCEPT ![c] = 1]
            /\ UNCHANGED <<cacheVars, grdRooms, grdResult, grdRet, grdFetch>>
       ELSE QuerySeatsStart(c, {})
    /\ UNCHANGED <<outsideVars, now, grdForce, callCount, fetchCount, cacheReaders>>

\* One round of the loop of query_rooms (lines 235-267): the room's request
\* ends, and after an answer the rate-limiting sleep.
RoomReply(c, ok) ==
    /\ grdPc[c] = "query_room"
    /\ LET rooms == IF ok THEN grdRooms[c] \cup {RoomItems[grdIdx[c]]}
                    ELSE grdRooms[c]
       IN  IF grdIdx[c] < Len(RoomItems)
           THEN /\ grdRooms' = [grdRooms EXCEPT ![c] = rooms]
                /\ grdIdx' = [grdIdx EXCEPT ![c] = grdIdx[c] + 1]
                /\ UNCHANGED <<cacheVars, grdPc, grdResult, grdRet, grdFetch>>
           ELSE QuerySeatsStart(c, rooms)
    /\ grdApiFailed' = [grdApiFailed EXCEPT ![c] =
                           IF ok THEN grdApiFailed[c] ELSE "search_seats"]
    /\ UNCHANGED <<outsideVars, now, grdForce, callCount, fetchCount, cacheReaders>>

\* One round of the loop of query_seats (lines 292-362): the room's request
\* ends and its floors are parsed.
SeatsReply(c, ok) ==
    /\ grdPc[c] = "query_seats"
    /\ LET result == IF ok
                     THEN Topology(grdResult[c].rooms \cup {RoomItems[grdIdx[c]]},
                                   grdFetch[c])
                     ELSE grdResult[c]
           next == NextCollected(grdRooms[c], grdIdx[c])
       IN  IF next # 0
           THEN /\ grdResult' = [grdResult EXCEPT ![c] = result]
                /\ grdIdx' = [grdIdx EXCEPT ![c] = next]
                /\ UNCHANGED <<cacheVars, grdPc, grdRooms, grdRet, grdFetch>>
           ELSE FetchReturned(c, result)
    /\ grdApiFailed' = [grdApiFailed EXCEPT ![c] =
                           IF ok THEN grdApiFailed[c] ELSE "search_seats"]
    /\ UNCHANGED <<outsideVars, now, grdForce, callCount, fetchCount, cacheReaders>>

\* set_cache (lines 45-50) and the return of the not-forced branch (202).
SetCache(c) ==
    /\ grdPc[c] = "set_cache"
    /\ asyncLock = 0
    /\ cache' = grdResult[c]
    /\ cacheTimestamp' = now
    /\ grdRet' = [grdRet EXCEPT ![c] = grdResult[c]]
    /\ grdPc' = [grdPc EXCEPT ![c] = "returned"]
    /\ grdResult' = [grdResult EXCEPT ![c] = EmptyDict]
    /\ grdFetch' = [grdFetch EXCEPT ![c] = 0]
    /\ UNCHANGED <<outsideVars, now, asyncLock, grdForce, grdIdx, grdRooms,
                   callCount, fetchCount, cacheReaders, grdApiFailed>>

\* clear_rooms_cache / clear_cache (lines 59-64, 207-209)
ClearCache(c) ==
    /\ ~InsideGrd(c)
    /\ asyncLock = 0
    /\ cache # NoTopology
    /\ cache' = NoTopology
    /\ cacheTimestamp' = NoTime
    /\ UNCHANGED <<outsideVars, now, asyncLock, grdVars, ghostVars>>

\* A caller awaits get_rooms_dict(force_refresh).
CallGetRoomsDict(c, force) ==
    /\ ~InsideGrd(c)
    /\ callCount < MaxCalls
    /\ EnterGetRoomsDict(c, force)
    /\ UNCHANGED <<outsideVars, now, cacheVars, fetchCount, cacheReaders>>

\* Time passes.
AdvanceClock ==
    /\ now + ClockStep <= ClockStart + MaxTicks * ClockStep
    /\ now' = now + ClockStep
    /\ UNCHANGED <<outsideVars, cacheVars, grdVars, ghostVars>>

\* ------------------------------------------------- configuration tables

\* config.room_name_dict and config.floor_name_dict: floor identifier ->
\* room name, floor name.  "3001" has a room but no floor name; floor "F9" of
\* "1548" is a floor the booking API does not list.
RoomNameDict == ("1547" :> "R1" @@ "1548" :> "R1" @@ "1001" :> "R2" @@ "3001" :> "R2")
FloorNameDict == ("1547" :> "F1" @@ "1548" :> "F9" @@ "1001" :> "F2")

\* dict.get(key): "" stands for None
DictGet(d, key) == IF key \in DOMAIN d THEN d[key] ELSE ""

\* rooms.get(room_name, {}).get(floor_name, {}).get("seats", {})
\*      .get(str(seat_number), 0)                        (lines 379-384)
SeatLookup(rooms, room_name, floor_name, seat_number) ==
    IF room_name \notin rooms.rooms THEN 0
    ELSE LET floors == WorldFloors(room_name)
         IN  IF floor_name \notin DOMAIN floors THEN 0
             ELSE IF seat_number \notin DOMAIN floors[floor_name] THEN 0
             ELSE floors[floor_name][seat_number]

SeatIdGivenUpNoTable(floor_id, seat_number) ==
    floor_id = "" \/ seat_number = ""

\* get_seat_id, lines 367-375: TRUE when it returns 0 before any look at
\* the topology.
SeatIdGivenUp(floor_id, seat_number) ==
    \/ floor_id = "" \/ seat_number = ""
    \/ DictGet(RoomNameDict, floor_id) = ""
    \/ DictGet(FloorNameDict, floor_id) = ""

\* ---------------------------------------------------------- BookingResult

NoResult ==
    [success |-> FALSE, user |-> "", floor_id |-> "", seat_number |-> "",
     attempt |-> 0, attempts |-> 0, error |-> "", error_attempts |-> 0,
     error_reason |-> ""]

FailureResultSilent(t, error) ==
    [NoResult EXCEPT !.user = t.user_name, !.floor_id = t.floor_id,
                     !.seat_number = t.seat_number]

\* A failed BookingResult (lines 119-124, 129-134, 144-149, 152-157).
FailureResult(t, error) ==
    [NoResult EXCEPT !.user = t.user_name, !.floor_id = t.floor_id,
                     !.seat_number = t.seat_number, !.error = error]

SuccessResultZeroBased(t, successful_attempt) ==
    [NoResult EXCEPT !.success = TRUE, !.user = t.user_name,
                     !.floor_id = t.floor_id, !.seat_number = t.seat_number,
                     !.attempt = successful_attempt - 1]

\* lines 221-229
SuccessResult(t, successful_attempt) ==
    [NoResult EXCEPT !.success = TRUE, !.user = t.user_name,
                     !.floor_id = t.floor_id, !.seat_number = t.seat_number,
                     !.attempt = successful_attempt]

ExhaustedResultStaleReason(t, last_error_message) ==
    [FailureResult(t, "Failed after attempts") EXCEPT
        !.error_attempts = t.max_trials,
        !.error_reason = "Unknown error",
        !.attempts = t.max_trials]

\* lines 253-262: "Failed after {max_trials} attempts: {last_error_message}"
ExhaustedResult(t, last_error_message) ==
    [FailureResult(t, "Failed after attempts") EXCEPT
        !.error_attempts = t.max_trials,
        !.error_reason = last_error_message,
        !.attempts = t.max_trials]

\* --------------------------------------------- run_booking_task (one run)

MaxTrials == 5
MaxInterval == 2

\* seat_id before get_seat_id has returned
NoSeat == 0 - 1

\* No reserve request submitted yet.
NoRequest == [data |-> <<>>, api_token |-> ""]

IdleTask ==
    [user_name |-> "", password |-> "", floor_id |-> "", seat_number |-> "",
     begin_time |-> 0, duration |-> 0, max_trials |-> 0, interval |-> 0]

InitPipelinesIdle ==
    /\ ptask = [c \in Clients |-> IdleTask]
    /\ pc = [c \in Clients |-> "idle"]
    /\ uid = [c \in Clients |-> ""]
    /\ seatId = [c \in Clients |-> NoSeat]
    /\ attempt = [c \in Clients |-> 0]
    /\ lastError = [c \in Clients |-> "Unknown error"]
    /\ windowWait = [c \in Clients |-> 0]
    /\ presult = [c \in Clients |-> NoResult]
    /\ loginCalls = [c \in Clients |-> 0]
    /\ reserveCalls = [c \in Clients |-> 0]
    /\ attemptSleeps = [c \in Clients |-> 0]
    /\ sleptSeconds = [c \in Clients |-> 0]
    /\ lastErrorAt = [c \in Clients |-> 0]
    /\ reserveUid = [c \in Clients |-> ""]
    /\ reserveRequest = [c \in Clients |-> NoRequest]
    /\ cancelledAt = [c \in Clients |-> ""]

\* The pipeline ends with BookingResult r.
Return(c, r) ==
    /\ presult' = [presult EXCEPT ![c] = r]
    /\ pc' = [pc EXCEPT ![c] = "done"]

\* The uid the booking API gives a user.
UidOf(user_name) == IF user_name = "u1" THEN "uid-u1" ELSE "uid-u2"

LoginFailedNever(got) == FALSE

\* line 118: if not uid
LoginFailed(got) == got = ""

SessionOfShared(c) == 1

\* line 115: each run works with a LibraryAPIClient of its own, whose uid
\* (api_client.py 91) login sets and confirm_seat reads.
SessionOf(c) == c

\* api_client.py 150-152: login returns None without any request
MissingCredentials(t) == t.user_name = "" \/ t.password = ""

\* client.login (api_client.py 148-180) and lines 117-124.  reply is "ok",
\* "rejected" (CODE is not ok) or "error" (the request raised).
Login(c, reply) ==
    /\ pc[c] = "login"
    /\ loginCalls' = [loginCalls EXCEPT ![c] = loginCalls[c] + 1]
    /\ LET got == IF reply = "ok" /\ ~MissingCredentials(ptask[c])
                  THEN UidOf(ptask[c].user_name) ELSE ""
       IN  /\ uid' = [uid EXCEPT ![SessionOf(c)] =
                         IF got # "" THEN got ELSE uid[SessionOf(c)]]
           /\ IF LoginFailed(got)
              THEN Return(c, FailureResult(ptask[c], "Login failed"))
              ELSE /\ pc' = [pc EXCEPT ![c] = "get_seat_id"]
                   /\ UNCHANGED presult
    /\ UNCHANGED <<splitVars, batchVars, retryVars, now, cacheVars, grdVars, ghostVars, ptask, seatId,
                   attempt, lastError, windowWait, reserveCalls, attemptSleeps,
                   sleptSeconds, lastErrorAt, reserveUid, reserveRequest,
                   cancelledAt>>

\* get_seat_id up to its call of get_rooms_dict (api_client.py 365-378),
\* and lines 127-134 when it gave up.
GetSeatId(c) ==
    /\ pc[c] = "get_seat_id"
    /\ IF SeatIdGivenUp(ptask[c].floor_id, ptask[c].seat_number)
       THEN /\ seatId' = [seatId EXCEPT ![c] = 0]
            /\ Return(c, FailureResult(ptask[c],
                         "Seat not found or invalid seat number"))
            /\ UNCHANGED <<grdVars, ghostVars>>
       ELSE /\ EnterGetRoomsDict(c, FALSE)
            /\ pc' = [pc EXCEPT ![c] = "resolving"]
            /\ UNCHANGED <<seatId, presult, fetchCount, cacheReaders>>
    /\ UNCHANGED <<splitVars, batchVars, retryVars, now, cacheVars, ptask, uid, attempt,
                   lastError, windowWait, pipeLog>>

BookingOpensTimeOfBegin(t) == t.begin_time - DaysAhead(t) * SecondsPerDay

\* _wait_for_booking_window, lines 172-175
BookingOpensTime(t) ==
    ReplaceHour(t.begin_time - DaysAhead(t) * SecondsPerDay, 20)

WaitSecondsUnguarded(t, current_time) ==
    IF current_time < BookingOpensTime(t)
    THEN BookingOpensTime(t) - current_time
    ELSE 0

WaitSecondsNever(t, current_time) == 0

\* _wait_for_booking_window, lines 161-194: the seconds to sleep, 0 for
\* none.  When begin_time is outside the range of datetime, line 163 raises,
\* the handler of lines 192-194 logs it and the function returns at once.
WaitSeconds(t, current_time) ==
    IF FromTimestampRaises(t.begin_time) THEN 0
    ELSE IF current_time < BookingOpensTime(t)
         THEN BookingOpensTime(t) - current_time
         ELSE 0

ResolutionFailedNever(seat_id) == FALSE

\* line 128
ResolutionFailed(seat_id) == seat_id = 0

\* get_rooms_dict has returned: the rest of get_seat_id (379-392), lines
\* 128-134, and _wait_for_booking_window up to its sleep (159-188).
SeatResolved(c) ==
    /\ pc[c] = "resolving"
    /\ grdPc[c] = "returned"
    /\ LET t == ptask[c]
           seat_id == SeatLookup(grdRet[c], DictGet(RoomNameDict, t.floor_id),
                                 DictGet(FloorNameDict, t.floor_id),
                                 t.seat_number)
       IN  /\ seatId' = [seatId EXCEPT ![c] = seat_id]
           /\ IF ResolutionFailed(seat_id)
              THEN /\ Return(c, FailureResult(t,
                                "Seat not found or invalid seat number"))
                   /\ UNCHANGED windowWait
              ELSE /\ windowWait' = [windowWait EXCEPT ![c] = WaitSeconds(t, now)]
                   /\ pc' = [pc EXCEPT ![c] =
                                IF WaitSeconds(t, now) > 0
                                THEN "window_sleep" ELSE "attempt"]
                   /\ UNCHANGED presult
    /\ UNCHANGED <<splitVars, batchVars, retryVars, now, cacheVars, grdVars, ghostVars, ptask, uid,
                   attempt, lastError, pipeLog>>

\* The sleep of _wait_for_booking_window ends (line 188).
WindowElapsed(c) ==
    /\ pc[c] = "window_sleep"
    /\ now' = now + windowWait[c]
    /\ pc' = [pc EXCEPT ![c] = "attempt"]
    /\ UNCHANGED <<splitVars, batchVars, retryVars, cacheVars, grdVars, ghostVars, ptask, uid, seatId,
                   attempt, lastError, windowWait, presult, pipeLog>>

\* ------------------------------------------------ the reserve request

\* api_client.py 426-435: confirm_data, its keys in insertion order
ConfirmData(begin_time, duration, user_id, seat_id, dtnow) ==
    << <<"api_time", ToString(dtnow - (dtnow % SecondsPerHour))>>,
       <<"beginTime", ToString(begin_time)>>,
       <<"duration", ToString(3600 * duration)>>,
       <<"is_recommend", "1">>,
       <<"seatBookers[0]", user_id>>,
       <<"seats[0]", ToString(seat_id)>> >>

\* line 454: the method and path every canonical string starts with
TokenPrefix == "post&/Seat/Index/bookSeats?LAB_JSON=1&"

\* lines 454-456: "&".join(f"{k}={v}" for k, v in data.items())
RECURSIVE JoinItems(_)
JoinItems(items) ==
    IF items = <<>> THEN ""
    ELSE items[1][1] \o "=" \o items[1][2]
         \o (IF Len(items) = 1 THEN "" ELSE "&" \o JoinItems(Tail(items)))

\* hashlib.md5(...).hexdigest() and base64.b64encode(...), kept symbolic:
\* the digest and the encoding of a text are written as terms over it.
Md5HexDigest(text) == "md5hex(" \o text \o ")"
B64Encode(text) == "b64(" \o text \o ")"

GenerateApiTokenNoPrefix(data) == B64Encode(Md5HexDigest(JoinItems(data)))

\* _generate_api_token (lines 451-461)
GenerateApiToken(data) ==
    B64Encode(Md5HexDigest(TokenPrefix \o JoinItems(data)))

\* confirm_seat, lines 426-442: the request the client of run c submits,
\* with the Api-Token header its session carries at that moment.
ReserveRequest(c) ==
    LET confirm_data == ConfirmData(ptask[c].begin_time, ptask[c].duration,
                                    uid[SessionOf(c)], seatId[c], now)
    IN  [data |-> confirm_data, api_token |-> GenerateApiToken(confirm_data)]

\* What confirm_seat hands back to _attempt_booking.
ReserveReplies == {"ok", "seat_taken", "request_error", "raise"}

\* lines 231 and 240: last_error_message after a failed attempt
ErrorMessage(reply) == IF reply = "raise" THEN "Request error" ELSE reply

SleepsAfterEveryAttempt(t, i) == TRUE

\* line 246: whether attempt i (from 0) is followed by a sleep
SleepsAfter(t, i) == i < t.max_trials - 1

LoopNextGivesUp(c, last_error_message) ==
    /\ Return(c, ExhaustedResult(ptask[c], last_error_message))
    /\ UNCHANGED attempt

\* line 205: the loop goes to its next round, or ends (lines 252-262).
LoopNext(c, last_error_message) ==
    IF attempt[c] + 1 < ptask[c].max_trials
    THEN /\ attempt' = [attempt EXCEPT ![c] = attempt[c] + 1]
         /\ pc' = [pc EXCEPT ![c] = "attempt"]
         /\ UNCHANGED presult
    ELSE /\ Return(c, ExhaustedResult(ptask[c], last_error_message))
         /\ UNCHANGED attempt

\* One round of the loop of _attempt_booking (lines 205-250) up to its
\* sleep.  confirm_seat hands back "ok" only after _handle_booking_response
\* has formatted begin_time as a datetime (api_client.py 468-474); for a
\* begin_time it cannot format it hands back "response_error".
ConfirmSeat(c, reply) ==
    /\ pc[c] = "attempt"
    /\ reply = "ok" => ~FromTimestampRaises(ptask[c].begin_time)
    /\ reserveCalls' = [reserveCalls EXCEPT ![c] = reserveCalls[c] + 1]
    /\ reserveUid' = [reserveUid EXCEPT ![c] = uid[SessionOf(c)]]
    /\ reserveRequest' = [reserveRequest EXCEPT ![c] = ReserveRequest(c)]
    /\ IF reply = "ok"
       THEN /\ Return(c, SuccessResult(ptask[c], attempt[c] + 1))
            /\ UNCHANGED <<attempt, lastError, lastErrorAt, attemptSleeps, sleptSeconds>>
       ELSE /\ lastError' = [lastError EXCEPT ![c] = ErrorMessage(reply)]
            /\ lastErrorAt' = [lastErrorAt EXCEPT ![c] = attempt[c] + 1]
            /\ IF SleepsAfter(ptask[c], attempt[c])
               THEN /\ pc' = [pc EXCEPT ![c] = "interval_sleep"]
                    /\ attemptSleeps' =
                           [attemptSleeps EXCEPT ![c] = attemptSleeps[c] + 1]
                    /\ sleptSeconds' =
                           [sleptSeconds EXCEPT ![c] =
                               sleptSeconds[c] + ptask[c].interval]
                    /\ UNCHANGED <<attempt, presult>>
               ELSE /\ LoopNext(c, ErrorMessage(reply))
                    /\ UNCHANGED <<attemptSleeps, sleptSeconds>>
    /\ UNCHANGED <<splitVars, batchVars, retryVars, now, cacheVars, grdVars, ghostVars, ptask, uid,
                   seatId, windowWait, loginCalls, cancelledAt>>

\* The sleep between two attempts ends (line 250).
IntervalElapsed(c) ==
    /\ pc[c] = "interval_sleep"
    /\ now' = now + ptask[c].interval
    /\ LoopNext(c, lastError[c])
    /\ UNCHANGED <<splitVars, batchVars, retryVars, cacheVars, grdVars, ghostVars, ptask, uid, seatId,
                   lastError, windowWait, pipeLog>>

\* The awaits of get_rooms_dict at which client c can be suspended: a
\* request of the fetch, or a lock another client holds.
SuspendedInGrd(c) ==
    \/ grdPc[c] \in {"category_list", "query_room", "query_seats"}
    \/ grdPc[c] \in {"get_cache", "set_cache", "refresh_cache"} /\ asyncLock # 0

\* The awaits of run_booking_task at which run c can be suspended.  At
\* "login" and "attempt" the request has been sent and its answer is awaited.
Suspended(c) ==
    \/ pc[c] \in {"login", "window_sleep", "attempt", "interval_sleep"}
    \/ pc[c] = "resolving" /\ SuspendedInGrd(c)

CancelPropagatesExceptWindow(at) == at # "window_sleep"

\* Whether a CancelledError raised at the await `at` reaches the handler of
\* run_booking_task (lines 142-149).  CancelledError is a BaseException: the
\* `except Exception` handlers on its way (line 192, api_client.py 76, 178,
\* 263, 360, 445) let it pass, and _attempt_booking raises it again (236-238).
CancelPropagates(at) == TRUE

\* The task running run_booking_task is cancelled while suspended, and
\* lines 142-149 turn the CancelledError into a result.
Cancel(c) ==
    /\ Suspended(c)
    /\ cancelledAt[c] = ""
    /\ cancelledAt' = [cancelledAt EXCEPT ![c] = pc[c]]
    /\ loginCalls' = [loginCalls EXCEPT ![c] =
                         IF pc[c] = "login" THEN loginCalls[c] + 1 ELSE loginCalls[c]]
    /\ reserveCalls' = [reserveCalls EXCEPT ![c] =
                           IF pc[c] = "attempt" THEN reserveCalls[c] + 1
                           ELSE reserveCalls[c]]
    /\ reserveUid' = [reserveUid EXCEPT ![c] =
                         IF pc[c] = "attempt" THEN uid[SessionOf(c)]
                         ELSE reserveUid[c]]
    /\ reserveRequest' = [reserveRequest EXCEPT ![c] =
                             IF pc[c] = "attempt" THEN ReserveRequest(c)
                             ELSE reserveRequest[c]]
    /\ IF CancelPropagates(pc[c])
       THEN Return(c, FailureResult(ptask[c], "Task cancelled"))
       ELSE /\ pc' = [pc EXCEPT ![c] = "attempt"]
            /\ UNCHANGED presult
    /\ IF pc[c] = "resolving"
       THEN /\ grdPc' = [grdPc EXCEPT ![c] = "returned"]
            /\ grdRet' = [grdRet EXCEPT ![c] = Raised]
            /\ grdIdx' = [grdIdx EXCEPT ![c] = 0]
            /\ grdRooms' = [grdRooms EXCEPT ![c] = {}]
            /\ grdResult' = [grdResult EXCEPT ![c] = EmptyDict]
            /\ grdFetch' = [grdFetch EXCEPT ![c] = 0]
            /\ asyncLock' = IF asyncLock = c THEN 0 ELSE asyncLock
            /\ UNCHANGED <<cache, cacheTimestamp, grdForce, callCount, fetchCount,
                           cacheReaders, grdApiFailed>>
       ELSE UNCHANGED <<cacheVars, grdVars, ghostVars>>
    /\ UNCHANGED <<splitVars, batchVars, retryVars, now, ptask, uid, seatId, attempt,
                   lastError, windowWait, attemptSleeps, sleptSeconds, lastErrorAt>>

\* ------------------------------------------------------ run_multiple_tasks

InitBatchIdle ==
    /\ batchTasks = <<>>
    /\ batchPc = "idle"
    /\ semValue = 0
    /\ btPc = <<>>
    /\ gathered = <<>>
    /\ batchOut = <<>>
    /\ btRaised = {}
    /\ btOutOfOrder = FALSE
    /\ btCancelled = {}

InitRetryIdle ==
    /\ retryPc = "idle"
    /\ retryG = 0
    /\ globalAttempt = 0
    /\ lastResult = NoResult
    /\ retryOut = NoResult
    /\ runCount = 0
    /\ backoffLog = <<>>

\* ----------------------------------------------------------------- Spec

\* main() has not been entered.
InitLegacyIdle ==
    /\ lgMain = "idle"
    /\ lgTasks = <<>>
    /\ lgRun = <<>>
    /\ lgRooms = NoTopology

InitSplitIdle ==
    /\ splitTask = None
    /\ configDict = None
    /\ splitNow = 0
    /\ splitOut = <<>>
    /\ splitPc = "idle"
    /\ InitLegacyIdle

Pipelines == {1}

PipelineBeginTimes ==
    {Epoch + 10 * SecondsPerHour,
     Epoch + SecondsPerDay + 10 * SecondsPerHour,
     Epoch + 2 * SecondsPerDay + 21 * SecondsPerHour,
     MaxDatetime}

PipelineTasks ==
    [user_name : {"u1"}, password : {"pw", ""}, floor_id : FloorIds \cup {""},
     seat_number : {"12", "99"}, begin_time : PipelineBeginTimes,
     duration : {2}, max_trials : 1..MaxTrials, interval : {1, MaxInterval}]

Init ==
    /\ InitSplitIdle
    /\ InitClock
    /\ InitCache
    /\ InitClients
    /\ ptask \in [Clients -> PipelineTasks \cup {IdleTask}]
    /\ \A c \in Clients : ptask[c] = IdleTask <=> c \notin Pipelines
    /\ pc = [c \in Clients |-> IF c \in Pipelines THEN "login" ELSE "idle"]
    /\ uid = [c \in Clients |-> ""]
    /\ seatId = [c \in Clients |-> NoSeat]
    /\ attempt = [c \in Clients |-> 0]
    /\ lastError = [c \in Clients |-> "Unknown error"]
    /\ windowWait = [c \in Clients |-> 0]
    /\ presult = [c \in Clients |-> NoResult]
    /\ loginCalls = [c \in Clients |-> 0]
    /\ reserveCalls = [c \in Clients |-> 0]
    /\ attemptSleeps = [c \in Clients |-> 0]
    /\ sleptSeconds = [c \in Clients |-> 0]
    /\ lastErrorAt = [c \in Clients |-> 0]
    /\ reserveUid = [c \in Clients |-> ""]
    /\ reserveRequest = [c \in Clients |-> NoRequest]
    /\ cancelledAt = [c \in Clients |-> ""]
    /\ InitBatchIdle
    /\ InitRetryIdle

Next ==
    \/ \E c \in Pipelines : \E reply \in {"ok", "rejected", "error"} : Login(c, reply)
    \/ \E c \in Pipelines : GetSeatId(c)
    \/ \E c \in Pipelines : GetCache(c)
    \/ \E c \in Pipelines : \E ok \in BOOLEAN : CategoryListReply(c, ok)
    \/ \E c \in Pipelines : \E ok \in BOOLEAN : RoomReply(c, ok)
    \/ \E c \in Pipelines : \E ok \in BOOLEAN : SeatsReply(c, ok)
    \/ \E c \in Pipelines : SetCache(c)
    \/ \E c \in Pipelines : SeatResolved(c)
    \/ \E c \in Pipelines : WindowElapsed(c)
    \/ \E c \in Pipelines : \E reply \in ReserveReplies : ConfirmSeat(c, reply)
    \/ \E c \in Pipelines : IntervalElapsed(c)
    \/ \E c \in Pipelines : Cancel(c)

Spec == Init /\ [][Next]_vars

\* The floor identifier is absent from room_name_dict or floor_name_dict.
Unmapped(floor_id) ==
    DictGet(RoomNameDict, floor_id) = "" \/ DictGet(FloorNameDict, floor_id) = ""

SeatNotFound(c) ==
    FailureResult(ptask[c], "Seat not found or invalid seat number")

\* C4: while every reserve call has returned a status other than "ok",
\* _attempt_booking has slept `interval` seconds after each call made so
\* far and makes at most max_trials calls; when it gives up it has made
\* exactly max_trials calls and slept after the first max_trials - 1 of them
\* only, not after the last.
C4_ExhaustedAttempts ==
    \A c \in Pipelines :
        /\ pc[c] \in {"attempt", "interval_sleep"} =>
              /\ reserveCalls[c] < ptask[c].max_trials
              /\ attemptSleeps[c] = reserveCalls[c]
              /\ sleptSeconds[c] = attemptSleeps[c] * ptask[c].interval
        /\ (pc[c] = "done" /\ presult[c].error = "Failed after attempts") =>
              /\ reserveCalls[c] = ptask[c].max_trials
              /\ attemptSleeps[c] = ptask[c].max_trials - 1
              /\ sleptSeconds[c] = (ptask[c].max_trials - 1) * ptask[c].interval

\* Three attempts were allowed, all three were rejected, two sleeps.
C4_Witness ==
    \E c \in Pipelines :
        /\ pc[c] = "done"
        /\ presult[c].error = "Failed after attempts"
        /\ ptask[c].max_trials = 3
        /\ reserveCalls[c] = 3
        /\ attemptSleeps[c] = 2

\* C5: a successful result carries success=True and attempt=k, where k in
\* 1..max_trials is the number of reserve calls made, the k-th being the
\* first answered "ok"; the only sleeps are the k-1 before it, and the
\* pipeline has ended, so no reserve call or sleep follows.
C5_SuccessOnAttemptK ==
    \A c \in Pipelines :
        presult[c].success =>
            /\ pc[c] = "done"
            /\ presult[c].attempt = reserveCalls[c]
            /\ presult[c].attempt \in 1..ptask[c].max_trials
            /\ attemptSleeps[c] = reserveCalls[c] - 1
            /\ sleptSeconds[c] = (reserveCalls[c] - 1) * ptask[c].interval
            /\ ~ENABLED ConfirmSeat(c, "ok")
            /\ ~ENABLED IntervalElapsed(c)

\* "ok" on the 3rd of 5 allowed attempts.
C5_Witness ==
    \E c \in Pipelines :
        /\ presult[c].success
        /\ presult[c].attempt = 3
        /\ ptask[c].max_trials = 5
        /\ reserveCalls[c] = 3

\* C9: for a floor identifier that room_name_dict or floor_name_dict does
\* not map, get_seat_id returns 0, and the client never enters
\* get_rooms_dict: it does not read the cache and starts no fetch.
C9_UnmappedFloor ==
    \A c \in Pipelines :
        Unmapped(ptask[c].floor_id) =>
            /\ seatId[c] \in {NoSeat, 0}
            /\ pc[c] \in {"login", "get_seat_id", "done"}
            /\ (pc[c] = "done" /\ uid[c] # "") => seatId[c] = 0
            /\ c \notin cacheReaders
            /\ grdPc[c] = "idle"
            /\ fetchCount = 0

\* get_seat_id has returned 0 for the unmapped floor "2001".
C9_Witness ==
    \E c \in Pipelines :
        /\ ptask[c].floor_id = "2001"
        /\ uid[c] # ""
        /\ pc[c] = "done"
        /\ seatId[c] = 0

\* C10: once get_seat_id has returned 0, the pipeline has ended with the
\* failed result "Seat not found or invalid seat number", has not slept for
\* the booking window and has made no reserve call.
C10_ResolutionFailureIsTerminal ==
    \A c \in Pipelines :
        seatId[c] = 0 =>
            /\ pc[c] = "done"
            /\ presult[c] = SeatNotFound(c)
            /\ ~presult[c].success
            /\ windowWait[c] = 0
            /\ reserveCalls[c] = 0

\* A mapped floor whose seat "99" the fetched topology does not offer.
C10_Witness ==
    \E c \in Pipelines :
        /\ seatId[c] = 0
        /\ ptask[c].floor_id = "1547"
        /\ ptask[c].seat_number = "99"
        /\ grdRet[c].rooms = {"R1", "R2"}
        /\ pc[c] = "done"

\* 20:00:00 on the day days_ahead days before the day of begin_time.
BookingOpensAt(t) ==
    (DateOf(t.begin_time) - DaysAhead(t)) * SecondsPerDay + 20 * SecondsPerHour

\* The claim of C12 for the tasks in `tasks`: the pipeline sleeps in
\* _wait_for_booking_window only when the present time is before the
\* opening, then for exactly the difference; it goes on without sleeping
\* only when the opening is not in the future; no reserve call is made
\* before the opening.
WindowRespected(tasks) ==
    \A c \in Pipelines :
        ptask[c] \in tasks =>
            /\ pc[c] = "window_sleep" =>
                  /\ now < BookingOpensAt(ptask[c])
                  /\ windowWait[c] = BookingOpensAt(ptask[c]) - now
                  /\ reserveCalls[c] = 0
            /\ (pc[c] = "attempt" /\ windowWait[c] = 0) =>
                  now >= BookingOpensAt(ptask[c])
            /\ reserveCalls[c] > 0 => now >= BookingOpensAt(ptask[c])

\* C12 as stated, for every task.
C12_WindowRespectedAlways == WindowRespected(PipelineTasks)

\* C12, amended: the statement holds for every task whose begin_time is
\* within the range of datetime.  For a begin_time outside it the opening
\* cannot be computed: _wait_for_booking_window never sleeps and the reserve
\* calls follow at once.
C12_WindowRespected ==
    /\ WindowRespected({t \in PipelineTasks : ~FromTimestampRaises(t.begin_time)})
    /\ \A c \in Pipelines :
          FromTimestampRaises(ptask[c].begin_time) =>
              windowWait[c] = 0 /\ pc[c] # "window_sleep"

\* A pipeline that slept eleven hours, from 09:00 to the opening at 20:00,
\* and then made its first reserve call.
C12_Witness ==
    \E c \in Pipelines :
        /\ windowWait[c] = 11 * SecondsPerHour
        /\ reserveCalls[c] = 1
        /\ now = BookingOpensAt(ptask[c])

\* C13: the steps of one run_booking_task come in order, each only after
\* the one before it has succeeded.  Until login has returned a uid nothing
\* of the seat resolution has happened; the wait for the window and the
\* attempts come only after the resolution has returned a seat; during the
\* wait no reserve call has been made; and a run that ended at a failed step
\* has done nothing of the later ones.
C13_StepsInOrder ==
    \A c \in Pipelines :
        /\ loginCalls[c] <= 1
        /\ pc[c] = "login" => loginCalls[c] = 0
        /\ (pc[c] = "login" \/ uid[c] = "") =>
              /\ seatId[c] = NoSeat
              /\ grdPc[c] = "idle"
              /\ c \notin cacheReaders
        /\ pc[c] \in {"get_seat_id", "resolving", "window_sleep", "attempt",
                      "interval_sleep"} =>
              uid[c] # "" /\ loginCalls[c] = 1
        /\ pc[c] = "resolving" => seatId[c] = NoSeat /\ grdPc[c] # "idle"
        /\ (pc[c] \in {"login", "get_seat_id", "resolving"} \/ seatId[c] <= 0) =>
              /\ windowWait[c] = 0
              /\ reserveCalls[c] = 0
              /\ attemptSleeps[c] = 0
        /\ pc[c] \in {"window_sleep", "attempt", "interval_sleep"} =>
              seatId[c] > 0
        /\ pc[c] = "window_sleep" => reserveCalls[c] = 0
        /\ reserveCalls[c] > 0 =>
              uid[c] # "" /\ seatId[c] > 0 /\ pc[c] # "window_sleep"

\* A run that has gone through all four steps: logged in, seat 101
\* resolved from a fetched topology, the window waited for, two reserve
\* calls made.
C13_Witness ==
    \E c \in Pipelines :
        /\ uid[c] # ""
        /\ seatId[c] = 101
        /\ fetchCount = 1
        /\ windowWait[c] > 0
        /\ reserveCalls[c] = 2

\* C14: a run cancelled while it slept in _wait_for_booking_window or
\* between two attempts has ended with the failed result "Task cancelled";
\* it has made no reserve call since (none at all when it was waiting for
\* the window, fewer than max_trials when it was between attempts), and no
\* reserve call or sleep of it can follow.
C14_CancelledWhileSleeping ==
    \A c \in Pipelines :
        cancelledAt[c] \in {"window_sleep", "interval_sleep"} =>
            /\ pc[c] = "done"
            /\ presult[c] = FailureResult(ptask[c], "Task cancelled")
            /\ presult[c].success = FALSE
            /\ cancelledAt[c] = "window_sleep" => reserveCalls[c] = 0
            /\ cancelledAt[c] = "interval_sleep" =>
                  /\ reserveCalls[c] = attempt[c] + 1
                  /\ reserveCalls[c] < ptask[c].max_trials
            /\ \A reply \in ReserveReplies : ~ENABLED ConfirmSeat(c, reply)
            /\ ~ENABLED IntervalElapsed(c)
            /\ ~ENABLED WindowElapsed(c)

\* Cancelled in the sleep after the first of three allowed attempts.
C14_Witness ==
    \E c \in Pipelines :
        /\ cancelledAt[c] = "interval_sleep"
        /\ ptask[c].max_trials = 3
        /\ reserveCalls[c] = 1
        /\ presult[c].error = "Task cancelled"

\* C23: once login has returned no uid, the run has ended with the failed
\* result "Login failed": it made one login call and cannot make another,
\* nothing of the seat resolution has happened (no get_seat_id result, no
\* cache read, no fetch), it has not waited for the window and has made no
\* reserve call.
C23_LoginFailureIsTerminal ==
    \A c \in Pipelines :
        (loginCalls[c] > 0 /\ uid[c] = "" /\ cancelledAt[c] = "") =>
            /\ pc[c] = "done"
            /\ presult[c] = FailureResult(ptask[c], "Login failed")
            /\ ~presult[c].success
            /\ loginCalls[c] = 1
            /\ \A reply \in {"ok", "rejected", "error"} : ~ENABLED Login(c, reply)
            /\ seatId[c] = NoSeat
            /\ grdPc[c] = "idle"
            /\ c \notin cacheReaders
            /\ fetchCount = 0
            /\ windowWait[c] = 0
            /\ attemptSleeps[c] = 0
            /\ reserveCalls[c] = 0

\* A run whose login was refused.
C23_Witness ==
    \E c \in Pipelines :
        /\ loginCalls[c] = 1
        /\ uid[c] = ""
        /\ pc[c] = "done"
        /\ presult[c].error = "Login failed"

\* C24: when all max_trials reserve calls of a run have failed, its result
\* has success=False and attempts=max_trials, and its error names the count
\* max_trials and the reason of the last attempt: the message that attempt
\* number max_trials assigned to last_error_message.
C24_ExhaustedResult ==
    \A c \in Pipelines :
        (/\ pc[c] = "done"
         /\ reserveCalls[c] = ptask[c].max_trials
         /\ ~presult[c].success
         /\ cancelledAt[c] = "") =>
            /\ presult[c].error = "Failed after attempts"
            /\ presult[c].attempts = ptask[c].max_trials
            /\ presult[c].error_attempts = ptask[c].max_trials
            /\ presult[c].error_reason = lastError[c]
            /\ lastErrorAt[c] = ptask[c].max_trials
            /\ presult[c].error_reason \in
                  {ErrorMessage(reply) : reply \in ReserveReplies \ {"ok"}}

\* Three attempts were allowed and the third was refused as "seat_taken".
C24_Witness ==
    \E c \in Pipelines :
        /\ pc[c] = "done"
        /\ ptask[c].max_trials = 3
        /\ reserveCalls[c] = 3
        /\ presult[c].attempts = 3
        /\ presult[c].error_attempts = 3
        /\ presult[c].error_reason = "seat_taken"
        /\ lastErrorAt[c] = 3

\* What last_error_message holds after a transport-level error of a
\* reserve call: confirm_seat caught it (api_client.py 447-449), or it
\* reached _attempt_booking (line 240).
TransportErrors == {ErrorMessage("request_error"), ErrorMessage("raise")}

\* C25: a reserve call that ended in a transport-level error counts as one
\* attempt like a refusal: unless it was attempt max_trials the run sleeps
\* `interval` seconds and then makes the next attempt, after attempt
\* max_trials it gives up with the exhausted result; and an "ok" answer to a
\* later attempt gives the success result with that attempt's number.
C25_TransportErrorRetried ==
    [][\A c \in Pipelines :
          /\ (/\ pc[c] = "attempt"
              /\ reserveCalls'[c] = reserveCalls[c] + 1
              /\ cancelledAt'[c] = cancelledAt[c]
              /\ ~presult'[c].success
              /\ lastError'[c] \in TransportErrors)
             => /\ reserveCalls'[c] = attempt[c] + 1
                /\ lastErrorAt'[c] = attempt[c] + 1
                /\ IF attempt[c] + 1 < ptask[c].max_trials
                   THEN /\ pc'[c] = "interval_sleep"
                        /\ attemptSleeps'[c] = attemptSleeps[c] + 1
                        /\ sleptSeconds'[c] = sleptSeconds[c] + ptask[c].interval
                        /\ presult'[c] = NoResult
                   ELSE /\ pc'[c] = "done"
                        /\ presult'[c] = ExhaustedResult(ptask[c], lastError'[c])
                        /\ attemptSleeps'[c] = attemptSleeps[c]
          /\ (/\ pc[c] = "interval_sleep"
              /\ pc'[c] # "interval_sleep"
              /\ cancelledAt'[c] = cancelledAt[c]
              /\ lastError[c] \in TransportErrors)
             => /\ pc'[c] = "attempt"
                /\ attempt'[c] = attempt[c] + 1
                /\ now' = now + ptask[c].interval
          /\ (/\ pc[c] = "attempt"
              /\ lastError[c] \in TransportErrors
              /\ lastErrorAt[c] = attempt[c]
              /\ presult'[c].success)
             => /\ pc'[c] = "done"
                /\ presult'[c] = SuccessResult(ptask[c], lastErrorAt[c] + 1)]_vars

\* The first reserve call ended in a transport error, the run slept once
\* and the second call was answered "ok".
C25_Witness ==
    \E c \in Pipelines :
        /\ presult[c].success
        /\ presult[c].attempt = 2
        /\ lastError[c] \in TransportErrors
        /\ lastErrorAt[c] = 1
        /\ reserveCalls[c] = 2
        /\ attemptSleeps[c] = 1

\* C30: when the opening of the booking window cannot be computed (the
\* begin_time is outside the range of datetime), the run is not ended by
\* it: once the seat is resolved the run does not sleep for the window, it
\* goes straight to its reserve calls, and unless cancelled it ends only
\* with the result of its max_trials attempts.
C30_WindowFailureSwallowed ==
    \A c \in Pipelines :
        (FromTimestampRaises(ptask[c].begin_time) /\ seatId[c] > 0) =>
            /\ windowWait[c] = 0
            /\ pc[c] \in {"attempt", "interval_sleep", "done"}
            /\ now <= ClockStart + sleptSeconds[c]
            /\ pc[c] = "attempt" =>
                  \A reply \in ReserveReplies \ {"ok"} : ENABLED ConfirmSeat(c, reply)
            /\ (pc[c] = "done" /\ cancelledAt[c] = "") =>
                  /\ reserveCalls[c] = ptask[c].max_trials
                  /\ presult[c] = ExhaustedResult(ptask[c], lastError[c])

\* A run whose begin_time no datetime can hold has made its first reserve
\* call at the time it started, without any wait.
C30_Witness ==
    \E c \in Pipelines :
        /\ ptask[c].begin_time = MaxDatetime
        /\ seatId[c] > 0
        /\ windowWait[c] = 0
        /\ reserveCalls[c] = 1
        /\ now = ClockStart

\* C31: every reserve request carries an Api-Token header that is Base64
\* of the MD5 hex digest of the canonical string: the fixed prefix
\* post&/Seat/Index/bookSeats?LAB_JSON=1& followed by the fields of that
\* very request, in insertion order, as key=value joined by &.  The
\* four-field example of the specification gives the string it states.
C31_ApiToken ==
    /\ GenerateApiToken(<< <<"beginTime", "100">>, <<"duration", "3600">>,
                           <<"seatBookers[0]", "42">>, <<"seats[0]", "7">> >>)
         = B64Encode(Md5HexDigest(
             "post&/Seat/Index/bookSeats?LAB_JSON=1&beginTime=100&duration=3600&seatBookers[0]=42&seats[0]=7"))
    /\ \A c \in Pipelines :
          reserveCalls[c] > 0 =>
             LET f == reserveRequest[c].data
             IN  /\ Len(f) = 6
                 /\ reserveRequest[c].api_token =
                      B64Encode(Md5HexDigest(
                         "post&/Seat/Index/bookSeats?LAB_JSON=1&"
                         \o f[1][1] \o "=" \o f[1][2] \o "&"
                         \o f[2][1] \o "=" \o f[2][2] \o "&"
                         \o f[3][1] \o "=" \o f[3][2] \o "&"
                         \o f[4][1] \o "=" \o f[4][2] \o "&"
                         \o f[5][1] \o "=" \o f[5][2] \o "&"
                         \o f[6][1] \o "=" \o f[6][2]))

\* A run has booked its seat with a request whose fields are those of its
\* task, its uid and its seat id, and whose token is derived from them.
C31_Witness ==
    \E c \in Pipelines :
        /\ pc[c] = "done"
        /\ presult[c].success
        /\ reserveRequest[c].data[2] = <<"beginTime", ToString(ptask[c].begin_time)>>
        /\ reserveRequest[c].data[5] = <<"seatBookers[0]", "uid-u1">>
        /\ reserveRequest[c].data[6] = <<"seats[0]", "101">>
        /\ reserveRequest[c].api_token = GenerateApiToken(reserveRequest[c].data)

\* ------------------------------------------------------------ SpecCache

InitCacheSpec ==
    /\ InitSplitIdle
    /\ InitClock
    /\ InitCache
    /\ InitClients
    /\ InitPipelinesIdle
    /\ InitBatchIdle
    /\ InitRetryIdle

NextCache ==
    \/ \E c \in Clients : \E force \in BOOLEAN : CallGetRoomsDict(c, force)
    \/ \E c \in Clients : GetCache(c)
    \/ \E c \in Clients : RefreshCacheEnter(c)
    \/ \E c \in Clients : \E ok \in BOOLEAN : CategoryListReply(c, ok)
    \/ \E c \in Clients : \E ok \in BOOLEAN : RoomReply(c, ok)
    \/ \E c \in Clients : \E ok \in BOOLEAN : SeatsReply(c, ok)
    \/ \E c \in Clients : SetCache(c)
    \/ \E c \in Clients : ClearCache(c)
    \/ AdvanceClock

SpecCache == InitCacheSpec /\ [][NextCache]_vars

\* C2: of two clients that are inside a not-forced get_rooms_dict at the
\* same time (both found the cache empty or expired), only one performs the
\* external topology fetch; the other waits for it and shares its result.
C2_SingleFlight ==
    \A c1, c2 \in Clients :
        (/\ c1 # c2
         /\ InsideGrd(c1) /\ ~grdForce[c1]
         /\ InsideGrd(c2) /\ ~grdForce[c2])
        => ~(grdFetch[c1] # 0 /\ grdFetch[c2] # 0)

\* C3: when a request of a topology fetch failed while the cache held
\* previously fetched data, the call returns that data and leaves the cache
\* as it was.
C3_StaleOnFailure ==
    [][\A c \in Clients :
          (/\ InsideGrd(c)
           /\ grdPc'[c] = "returned"
           /\ grdApiFailed'[c] # ""
           /\ cache # NoTopology
           /\ cache.rooms # {})
          => (cache' = cache /\ grdRet'[c] = cache)]_vars

\* The clients whose topology fetch (query_rooms, then query_seats) is under
\* way.
Fetching == {c \in Clients : grdPc[c] \in {"category_list", "query_room", "query_seats"}}

\* C19: when a client's get_rooms_dict(force_refresh=False) reads the cache
\* while it holds a topology stored less than an hour ago, whichever client
\* stored it, the call returns that topology; it starts no fetch and leaves
\* the cache as it is.
C19_ValidCacheServed ==
    [][\A c \in Clients :
          (/\ grdPc[c] = "get_cache"
           /\ grdPc'[c] # "get_cache"
           /\ cache # NoTopology
           /\ now - cacheTimestamp < 60 * 60)
          => /\ grdPc'[c] = "returned"
             /\ grdRet'[c] = cache
             /\ cache' = cache /\ cacheTimestamp' = cacheTimestamp
             /\ fetchCount' = fetchCount
             /\ c \notin Fetching']_vars

\* Both clients have called get_rooms_dict(False) and hold the full
\* topology, and only one fetch was ever made: one of the calls was served
\* from the cache.
C19_Witness ==
    /\ fetchCount = 1
    /\ cache # NoTopology
    /\ cache.rooms = {"R1", "R2"}
    /\ \A c \in Clients :
          grdPc[c] = "returned" /\ ~grdForce[c] /\ grdRet[c] = cache

\* C20: whatever the clients and whether forced or not, at most one
\* topology fetch started by get_rooms_dict is under way at any time.
C20_OneFetchInFlight == Cardinality(Fetching) <= 1

C36_FailedFetchNotCached ==
    [][\A c \in Clients :
          (grdPc[c] = "get_cache" /\ grdPc'[c] = "returned") =>
              grdRet'[c].rooms # {}]_vars

\* C40: when topology fetches overlap, the data of a fetch that started
\* earlier never replaces in the cache the data stored by a fetch that
\* started later: a store that puts the complete topology of one fetch in
\* the place of the complete topology of another does so for a fetch that
\* started after it.
C40_NewerFetchKept ==
    [][(/\ cache.rooms = {RoomItems[k] : k \in 1..Len(RoomItems)}
        /\ cache'.rooms = {RoomItems[k] : k \in 1..Len(RoomItems)}
        /\ cache' # cache) =>
           cache'.fetch > cache.fetch]_vars

\* ------------------------------------------------------------ SpecSplit

\* Hours of the day and absolute timestamps a request may name.
SplitBeginTimes ==
    {0, 9, 21, 23, Epoch + 2 * SecondsPerDay + 9 * SecondsPerHour,
     Epoch + 2 * SecondsPerDay + 22 * SecondsPerHour}

\* Times of day at which the task list is built.
SplitNows == {Epoch + 8 * SecondsPerHour + 1805, Epoch + 22 * SecondsPerHour + 59}

SplitInputs ==
    [user_name : {"u1"}, password : {"pw"}, floor_id : FloorIds,
     seat_number : {"12"}, begin_time : SplitBeginTimes,
     duration : MinDuration..MaxDuration, max_trials : {3}, interval : {2}]

InitSplit ==
    /\ splitTask \in SplitInputs
    /\ configDict = None
    /\ splitNow \in SplitNows
    /\ splitOut = <<>>
    /\ splitPc = "ready"
    /\ InitLegacyIdle
    /\ InitClock
    /\ InitCache
    /\ InitClients
    /\ InitPipelinesIdle
    /\ InitBatchIdle
    /\ InitRetryIdle

Split ==
    /\ splitPc = "ready"
    /\ splitOut' = SplitLongDurationTask(splitTask, splitNow)
    /\ splitPc' = "done"
    /\ UNCHANGED <<splitTask, splitNow, configDict, legacyVars, now, cacheVars,
                   grdVars, ghostVars, pipeVars, pipeLog, batchVars, retryVars>>

NextSplit == Split

SpecSplit == InitSplit /\ [][NextSplit]_vars

RECURSIVE SumDurations(_)
SumDurations(s) == IF s = <<>> THEN 0 ELSE Head(s).duration + SumDurations(Tail(s))

C11_HourFormatResolved ==
    (splitPc = "done" /\ splitTask.begin_time \in 0..23) =>
        /\ HourOf(splitOut[1].begin_time) = splitTask.begin_time
        /\ splitOut[1].begin_time % SecondsPerHour = 0
        /\ DateOf(splitOut[1].begin_time) = DateOf(splitNow) + DaysAhead(splitTask)
        /\ splitOut[1].begin_time > splitNow

\* Nine o'clock asked for at ten at night on floor 1547: nine o'clock of the
\* next day.
C11_Witness ==
    /\ splitPc = "done"
    /\ splitTask.begin_time = 9
    /\ splitTask.floor_id = "1547"
    /\ HourOf(splitNow) = 22
    /\ splitOut[1].begin_time = (DateOf(splitNow) + 1) * SecondsPerDay + 9 * SecondsPerHour


C32_Contiguous ==
    splitPc = "done" =>
        /\ Len(splitOut) >= 1
        /\ splitOut[1].begin_time =
              IF splitTask.begin_time \in 0..23
              THEN (DateOf(splitNow) + DaysAhead(splitTask)) * SecondsPerDay
                   + splitTask.begin_time * 3600
              ELSE splitTask.begin_time
        /\ \A i \in 1..(Len(splitOut) - 1) :
              splitOut[i + 1].begin_time =
                  splitOut[i].begin_time + splitOut[i].duration * 3600

\* A request of 6 hours from 21 o'clock on a capped floor has been split
\* into 21-01 and 01-03: the second part begins on the next day.
C32_Witness ==
    /\ splitPc = "done"
    /\ splitTask.begin_time = 21
    /\ splitTask.duration = 6
    /\ Len(splitOut) = 2
    /\ HourOf(splitOut[1].begin_time) = 21
    /\ HourOf(splitOut[2].begin_time) = 1
    /\ DateOf(splitOut[2].begin_time) = DateOf(splitOut[1].begin_time) + 1

\* C38 as stated: all sub-tasks _split_long_duration_task makes of one
\* request have the same booking-window opening time, as
\* _wait_for_booking_window computes it.
C38_SameWindow ==
    splitPc = "done" =>
        \A i, j \in 1..Len(splitOut) :
            BookingOpensTime(splitOut[i]) = BookingOpensTime(splitOut[j])

\* C38, amended: the sub-tasks of one request that begin on the same
\* calendar day have the same booking-window opening time; a sub-task that
\* begins on the following day, after midnight, has its window open one
\* day later.
C38_SameWindowPerDay ==
    splitPc = "done" =>
        \A i, j \in 1..Len(splitOut) :
            /\ DateOf(splitOut[i].begin_time) = DateOf(splitOut[j].begin_time) =>
                  BookingOpensTime(splitOut[i]) = BookingOpensTime(splitOut[j])
            /\ DateOf(splitOut[j].begin_time) = DateOf(splitOut[i].begin_time) + 1 =>
                  BookingOpensTime(splitOut[j]) =
                      BookingOpensTime(splitOut[i]) + SecondsPerDay

\* A request of 12 hours from 21 o'clock on floor 1547 has been split into
\* three parts: the first begins on the target day, the two others on the
\* day after and they share a window that opens one day after the first's.
C38_Witness ==
    /\ splitPc = "done"
    /\ splitTask.floor_id = "1547"
    /\ splitTask.begin_time = 21
    /\ Len(splitOut) = 3
    /\ DateOf(splitOut[2].begin_time) = DateOf(splitOut[1].begin_time) + 1
    /\ BookingOpensTime(splitOut[2]) = BookingOpensTime(splitOut[3])
    /\ BookingOpensTime(splitOut[2]) = BookingOpensTime(splitOut[1]) + SecondsPerDay
    /\ BookingOpensTime(splitOut[1]) = ReplaceHour(splitNow, 20)

\* ----------------------------------------------------------- SpecCreate

\* A value of config_dict that stands for a number: absent, an int, the
\* decimal text of an int (what the command line hands over), or a text
\* int() cannot parse.
AbsentField == [kind |-> "absent", value |-> 0]
IntField(v) == [kind |-> "int", value |-> v]
TextField(v) == [kind |-> "text", value |-> v]
JunkField == [kind |-> "junk", value |-> 0]

\* line 26: config_dict.get(field) is truthy
Truthy(f) == f.kind \in {"text", "junk"} \/ (f.kind = "int" /\ f.value # 0)

\* lines 23-27
MissingFields(cfg) ==
    {field \in {"user_name", "password", "floor_id", "seat_number"} :
        cfg[field] = ""}
    \cup {field \in {"begin_time", "duration"} : ~Truthy(cfg[field])}

DefaultMaxTrials == 3
DefaultInterval == 2
MaxTrialsLimit == 100
MaxIntervalLimit == 60

\* int(value), int(config_dict.get(field, default)), lines 34-37
IntOf(f, default) == IF f.kind = "absent" THEN default ELSE f.value

\* lines 33-39: a value int() cannot parse
ConversionFails(cfg) ==
    \E field \in {"begin_time", "duration", "max_trials", "interval"} :
        cfg[field].kind = "junk"

\* line 42: the fields of BookingTask(**config_dict)
BaseTask(cfg) ==
    [user_name |-> cfg.user_name, password |-> cfg.password,
     floor_id |-> cfg.floor_id, seat_number |-> cfg.seat_number,
     begin_time |-> IntOf(cfg.begin_time, 0),
     duration |-> IntOf(cfg.duration, 0),
     max_trials |-> IntOf(cfg.max_trials, DefaultMaxTrials),
     interval |-> IntOf(cfg.interval, DefaultInterval)]

\* The validation of BookingTask (models.py 108-132)
ValidTask(t) ==
    /\ t.user_name # "" /\ t.password # ""
    /\ ValidBeginTime(t.begin_time)
    /\ t.duration >= MinDuration /\ t.duration <= MaxDuration
    /\ t.max_trials >= 1 /\ t.max_trials <= MaxTrialsLimit
    /\ t.interval >= 1 /\ t.interval <= MaxIntervalLimit

\* create_tasks_from_config goes through without raising.
Accepted(cfg) ==
    /\ MissingFields(cfg) = {}
    /\ ~ConversionFails(cfg)
    /\ ValidTask(BaseTask(cfg))

ConfigBeginTimes ==
    {AbsentField, JunkField, IntField(0), TextField(0), IntField(9), TextField(9),
     TextField(23), TextField(24), IntField(0 - 1), IntField(MinTimestamp),
     IntField(MinTimestamp + 1),
     TextField(Epoch + 2 * SecondsPerDay + 9 * SecondsPerHour)}

ConfigDurations ==
    {AbsentField, JunkField, IntField(0), TextField(2), TextField(4),
     IntField(6), TextField(MaxDuration), IntField(MaxDuration + 1)}

ConfigInputs ==
    [user_name : {"u1", ""}, password : {"pw"},
     floor_id : {"1547", "1548", "1001", "east", ""}, seat_number : {"12"},
     begin_time : ConfigBeginTimes, duration : ConfigDurations,
     max_trials : {AbsentField, IntField(0), TextField(5)},
     interval : {AbsentField, TextField(MaxIntervalLimit + 1)}]

InitCreate ==
    /\ configDict \in ConfigInputs
    /\ splitTask = None
    /\ splitNow \in SplitNows
    /\ splitOut = <<>>
    /\ splitPc = "called"
    /\ InitLegacyIdle
    /\ InitClock
    /\ InitCache
    /\ InitClients
    /\ InitPipelinesIdle
    /\ InitBatchIdle
    /\ InitRetryIdle

\* create_tasks_from_config, lines 14-49
CreateTasksFromConfig ==
    /\ splitPc = "called"
    /\ IF Accepted(configDict)
       THEN /\ splitTask' = BaseTask(configDict)
            /\ splitOut' = SplitLongDurationTask(BaseTask(configDict), splitNow)
            /\ splitPc' = "done"
       ELSE /\ splitPc' = "raised"
            /\ UNCHANGED <<splitTask, splitOut>>
    /\ UNCHANGED <<splitNow, configDict, legacyVars, now, cacheVars, grdVars,
                   ghostVars, pipeVars, pipeLog, batchVars, retryVars>>

NextCreate == CreateTasksFromConfig

SpecCreate == InitCreate /\ [][NextCreate]_vars

\* C27: every task of the list create_tasks_from_config returns has a
\* begin_time above 1000000000, an absolute timestamp: whether the request
\* named an hour of the day or a timestamp, and whether it was split or not,
\* no task leaves with an hour (0..23) as its begin_time.
C27_AbsoluteBeginTime ==
    splitPc = "done" =>
        /\ Len(splitOut) >= 1
        /\ \A i \in 1..Len(splitOut) :
              /\ splitOut[i].begin_time > 1000000000
              /\ splitOut[i].begin_time \notin 0..23

\* Six hours from nine o'clock on floor 1547, the hour given as text: two
\* tasks, at nine and at thirteen o'clock of the next day.
C27_Witness ==
    /\ splitPc = "done"
    /\ configDict.begin_time = TextField(9)
    /\ configDict.floor_id = "1547"
    /\ Len(splitOut) = 2
    /\ splitOut[1].begin_time = (DateOf(splitNow) + 1) * SecondsPerDay + 9 * SecondsPerHour
    /\ splitOut[2].begin_time = splitOut[1].begin_time + 4 * SecondsPerHour

\* ------------------------------------------------------------- SpecPair

\* Two runs of run_booking_task under way at once, as bounded_task starts
\* them: one for user u1, one for user u2.
PairUsers == <<"u1", "u2">>

PairTasks ==
    [user_name : {"u1", "u2"}, password : {"pw"}, floor_id : {"1547"},
     seat_number : {"12"},
     begin_time : {Epoch + 10 * SecondsPerHour,
                   Epoch + SecondsPerDay + 10 * SecondsPerHour},
     duration : {2}, max_trials : {1, 2}, interval : {1}]

InitPair ==
    /\ InitSplitIdle
    /\ InitClock
    /\ InitCache
    /\ InitClients
    /\ ptask \in [Clients -> PairTasks]
    /\ \A c \in Clients : ptask[c].user_name = PairUsers[c]
    /\ pc = [c \in Clients |-> "login"]
    /\ uid = [c \in Clients |-> ""]
    /\ seatId = [c \in Clients |-> NoSeat]
    /\ attempt = [c \in Clients |-> 0]
    /\ lastError = [c \in Clients |-> "Unknown error"]
    /\ windowWait = [c \in Clients |-> 0]
    /\ presult = [c \in Clients |-> NoResult]
    /\ loginCalls = [c \in Clients |-> 0]
    /\ reserveCalls = [c \in Clients |-> 0]
    /\ attemptSleeps = [c \in Clients |-> 0]
    /\ sleptSeconds = [c \in Clients |-> 0]
    /\ lastErrorAt = [c \in Clients |-> 0]
    /\ reserveUid = [c \in Clients |-> ""]
    /\ reserveRequest = [c \in Clients |-> NoRequest]
    /\ cancelledAt = [c \in Clients |-> ""]
    /\ InitBatchIdle
    /\ InitRetryIdle

NextPair ==
    \/ \E c \in Clients : \E reply \in {"ok", "rejected", "error"} : Login(c, reply)
    \/ \E c \in Clients : GetSeatId(c)
    \/ \E c \in Clients : GetCache(c)
    \/ \E c \in Clients : \E ok \in BOOLEAN : CategoryListReply(c, ok)
    \/ \E c \in Clients : \E ok \in BOOLEAN : RoomReply(c, ok)
    \/ \E c \in Clients : \E ok \in BOOLEAN : SeatsReply(c, ok)
    \/ \E c \in Clients : SetCache(c)
    \/ \E c \in Clients : SeatResolved(c)
    \/ \E c \in Clients : WindowElapsed(c)
    \/ \E c \in Clients : \E reply \in ReserveReplies : ConfirmSeat(c, reply)
    \/ \E c \in Clients : IntervalElapsed(c)
    \/ \E c \in Clients : Cancel(c)

SpecPair == InitPair /\ [][NextPair]_vars

\* C28: with two runs under way at once, the user id every reserve request
\* of a run carries is the one the login of that same run returned, never
\* the one the other run obtained.
C28_OwnSession ==
    \A c \in Clients :
        reserveCalls[c] > 0 =>
            /\ reserveUid[c] = UidOf(ptask[c].user_name)
            /\ \A o \in Clients \ {c} : reserveUid[c] # UidOf(ptask[o].user_name)

\* Both runs have logged in, the second after the first, and both have made
\* a reserve call with their own user id.
C28_Witness ==
    /\ \A c \in Clients : loginCalls[c] = 1 /\ reserveCalls[c] >= 1
    /\ reserveUid[1] = "uid-u1"
    /\ reserveUid[2] = "uid-u2"

\* ------------------------------------------------------------- SpecBatch

MaxTasks == 11
MaxFailures == 2

\* line 273: the 10 of min(10, len(tasks))
MaxConcurrent == 10

\* The tasks of a batch: distinct users; odd positions ask for a seat on
\* floor 1547, even positions for a floor the configuration does not map.
BatchTask(i) ==
    [user_name |-> "u" \o ToString(i), password |-> "pw",
     floor_id |-> IF i % 2 = 1 THEN "1547" ELSE "2001",
     seat_number |-> "12", begin_time |-> Epoch + 10 * SecondsPerHour,
     duration |-> 2, max_trials |-> 3, interval |-> 1]

BatchInputs == {[i \in 1..n |-> BatchTask(i)] : n \in 0..MaxTasks}

InitBatch ==
    /\ InitSplitIdle
    /\ InitClock
    /\ InitCache
    /\ InitClients
    /\ InitPipelinesIdle
    /\ batchTasks \in BatchInputs
    /\ batchPc = "ready"
    /\ semValue = 0
    /\ btPc = [i \in 1..Len(batchTasks) |-> "pending"]
    /\ gathered = [i \in 1..Len(batchTasks) |-> NoResult]
    /\ batchOut = <<>>
    /\ btRaised = {}
    /\ btOutOfOrder = FALSE
    /\ btCancelled = {}
    /\ InitRetryIdle

MaxConcurrentUncapped(n) == n

\* line 273
MaxConcurrentOf(n) == Min(MaxConcurrent, n)

\* lines 266-284: an empty list returns at once; otherwise the semaphore is
\* created and gather schedules one bounded_task per task.
RunMultipleTasks ==
    /\ batchPc = "ready"
    /\ IF batchTasks = <<>>
       THEN /\ batchOut' = <<>>
            /\ batchPc' = "returned"
            /\ UNCHANGED semValue
       ELSE /\ semValue' = MaxConcurrentOf(Len(batchTasks))
            /\ batchPc' = "gathering"
            /\ UNCHANGED batchOut
    /\ UNCHANGED <<batchTasks, btPc, gathered, btRaised, btOutOfOrder, btCancelled>>
    /\ UNCHANGED <<splitVars, now, cacheVars, grdVars, ghostVars, pipeVars, pipeLog,
                   retryVars>>

\* lines 276-278: bounded_task i acquires the semaphore and enters
\* run_booking_task.  gather starts the coroutines in list order and the
\* semaphore wakes its waiters first come, first served.
BoundedTaskStart(i) ==
    /\ batchPc = "gathering"
    /\ btPc[i] = "pending"
    /\ \A j \in 1..(i - 1) : btPc[j] # "pending"
    /\ semValue > 0
    /\ semValue' = semValue - 1
    /\ btPc' = [btPc EXCEPT ![i] = "running"]
    /\ UNCHANGED <<batchTasks, batchPc, gathered, batchOut, btRaised, btOutOfOrder,
                   btCancelled>>
    /\ UNCHANGED <<splitVars, now, cacheVars, grdVars, ghostVars, pipeVars, pipeLog,
                   retryVars>>

MaxCancels == 1

\* How a pipeline ends: it returns its result, an exception is raised
\* inside it (caught at lines 150-157), or an exception leaves
\* run_booking_task (raised by one of its handlers).
PipelineOutcomes == {"returns", "raises", "escapes"}

\* A pipeline's task can also be cancelled while the pipeline is suspended:
\* run_booking_task then returns the result of lines 142-149.
CancelOutcomes == {"returns", "cancelled"}

\* What run_booking_task returns for task t when nothing is raised, every
\* request is answered and the first reserve call is answered "ok".
PipelineReturns(t) ==
    IF SeatIdGivenUp(t.floor_id, t.seat_number)
    THEN FailureResult(t, "Seat not found or invalid seat number")
    ELSE SuccessResult(t, 1)

\* The CancelledError gather returns in place of the result of a
\* bounded_task that was cancelled before it got the semaphore.
CancelledErrorObject == [NoResult EXCEPT !.error = "CancelledError"]

\* The exception object gather returns in place of a result
\* (return_exceptions=True).
ExceptionObject == [NoResult EXCEPT !.error = "Exception"]

\* line 289.  CancelledError is a BaseException, not an Exception.
IsException(gathered_result) == gathered_result = ExceptionObject

BoundedTaskResultCancelEscapes(t, outcome) ==
    CASE outcome = "returns" -> PipelineReturns(t)
      [] outcome = "raises"  -> FailureResult(t, "Unexpected error")
      [] outcome = "escapes" -> ExceptionObject
      [] outcome = "cancelled" -> CancelledErrorObject

\* What bounded_task i hands to gather (lines 110-157, 276-278).
BoundedTaskResult(t, outcome) ==
    CASE outcome = "returns" -> PipelineReturns(t)
      [] outcome = "raises"  -> FailureResult(t, "Unexpected error")
      [] outcome = "escapes" -> ExceptionObject
      [] outcome = "cancelled" -> FailureResult(t, "Task cancelled")

SemaphoreKept(value) == value

\* line 277: leaving `async with semaphore` gives the permit back
SemaphoreReleased(value) == value + 1

\* run_booking_task of task i ends and the semaphore is released.
PipelineEnds(i, outcome) ==
    /\ batchPc = "gathering"
    /\ btPc[i] = "running"
    /\ outcome \in {"raises", "escapes"} => Cardinality(btRaised) < MaxFailures
    /\ outcome = "cancelled" => Cardinality(btCancelled) < MaxCancels
    /\ btPc' = [btPc EXCEPT ![i] = "done"]
    /\ gathered' = [gathered EXCEPT ![i] = BoundedTaskResult(batchTasks[i], outcome)]
    /\ semValue' = SemaphoreReleased(semValue)
    /\ btRaised' = IF outcome \in {"raises", "escapes"}
                   THEN btRaised \cup {i} ELSE btRaised
    /\ btCancelled' = IF outcome = "cancelled"
                      THEN btCancelled \cup {[task |-> i, at |-> "pipeline"]}
                      ELSE btCancelled
    /\ btOutOfOrder' = (btOutOfOrder \/ \E j \in 1..(i - 1) : btPc[j] = "running")
    /\ UNCHANGED <<batchTasks, batchPc, batchOut>>
    /\ UNCHANGED <<splitVars, now, cacheVars, grdVars, ghostVars, pipeVars, pipeLog,
                   retryVars>>

ProcessResultUnconverted(t, gathered_result) == gathered_result

\* lines 289-303: one entry of processed_results
ProcessResult(t, gathered_result) ==
    IF IsException(gathered_result)
    THEN FailureResult(t, "Task execution failed")
    ELSE gathered_result

BatchReturnReversed(tasks, results) ==
    [i \in 1..Len(tasks) |->
        ProcessResult(tasks[Len(tasks) + 1 - i], results[Len(tasks) + 1 - i])]

\* lines 287-324: processed_results; when an entry is a CancelledError,
\* `r.success` of line 306 raises AttributeError and the handler of lines
\* 313-324 returns a failed result for every task.
BatchReturn(tasks, results) ==
    LET processed_results ==
            [i \in 1..Len(tasks) |-> ProcessResult(tasks[i], results[i])]
    IN  IF \E i \in 1..Len(tasks) : processed_results[i] = CancelledErrorObject
        THEN [i \in 1..Len(tasks) |->
                 FailureResult(tasks[i], "Batch execution failed")]
        ELSE processed_results

\* Every bounded_task has ended: gather returns and lines 286-311 run.
GatherReturns ==
    /\ batchPc = "gathering"
    /\ \A i \in 1..Len(batchTasks) : btPc[i] = "done"
    /\ batchOut' = BatchReturn(batchTasks, gathered)
    /\ batchPc' = "returned"
    /\ UNCHANGED <<batchTasks, semValue, btPc, gathered, btRaised, btOutOfOrder,
                   btCancelled>>
    /\ UNCHANGED <<splitVars, now, cacheVars, grdVars, ghostVars, pipeVars, pipeLog,
                   retryVars>>

\* bounded_task i is cancelled while it waits for the semaphore (line 277):
\* run_booking_task is never entered and gather keeps the CancelledError.
WaiterCancelled(i) ==
    /\ batchPc = "gathering"
    /\ btPc[i] = "pending"
    /\ semValue = 0
    /\ Cardinality(btCancelled) < MaxCancels
    /\ btPc' = [btPc EXCEPT ![i] = "done"]
    /\ gathered' = [gathered EXCEPT ![i] = CancelledErrorObject]
    /\ btCancelled' = btCancelled \cup {[task |-> i, at |-> "semaphore"]}
    /\ UNCHANGED <<batchTasks, batchPc, semValue, batchOut, btRaised, btOutOfOrder>>
    /\ UNCHANGED <<splitVars, now, cacheVars, grdVars, ghostVars, pipeVars, pipeLog,
                   retryVars>>

NextBatch ==
    \/ RunMultipleTasks
    \/ \E i \in 1..Len(batchTasks) : BoundedTaskStart(i)
    \/ \E i \in 1..Len(batchTasks) : \E outcome \in PipelineOutcomes :
          PipelineEnds(i, outcome)
    \/ GatherReturns

SpecBatch == InitBatch /\ [][NextBatch]_vars

\* run_multiple_tasks while tasks of the batch are cancelled.
NextBatchCancel ==
    \/ RunMultipleTasks
    \/ \E i \in 1..Len(batchTasks) : BoundedTaskStart(i)
    \/ \E i \in 1..Len(batchTasks) : \E outcome \in CancelOutcomes :
          PipelineEnds(i, outcome)
    \/ \E i \in 1..Len(batchTasks) : WaiterCancelled(i)
    \/ GatherReturns

SpecBatchCancel == InitBatch /\ [][NextBatchCancel]_vars

\* The pipelines that have entered run_booking_task and not yet finished.
InFlight == {i \in 1..Len(batchTasks) : btPc[i] = "running"}

\* C6: during run_multiple_tasks on n tasks, the number of pipelines that
\* have entered run_booking_task and not yet finished is never more than
\* min(10, n).
C6_BoundedConcurrency ==
    Cardinality(InFlight) <= Min(10, Len(batchTasks))

\* Eleven tasks: ten pipelines are in flight and the eleventh waits.
C6_Witness ==
    /\ Len(batchTasks) = 11
    /\ Cardinality(InFlight) = 10
    /\ btPc[11] = "pending"

\* C7: when a pipeline raises, the result at its position is a failed
\* BookingResult naming that task; the pipelines of the other tasks are not
\* stopped, all of them have run to their end when run_multiple_tasks
\* returns, and each of their positions holds the result their own pipeline
\* produced.
C7_FailureIsolation ==
    /\ batchPc = "gathering" =>
          \A i \in InFlight : ENABLED PipelineEnds(i, "returns")
    /\ batchPc = "returned" =>
          \A i \in 1..Len(batchTasks) :
              /\ btPc[i] = "done"
              /\ i \in btRaised =>
                    /\ batchOut[i].success = FALSE
                    /\ batchOut[i].user = batchTasks[i].user_name
                    /\ batchOut[i].floor_id = batchTasks[i].floor_id
                    /\ batchOut[i].seat_number = batchTasks[i].seat_number
                    /\ batchOut[i].error \in
                          {"Unexpected error", "Task execution failed"}
              /\ i \notin btRaised =>
                    batchOut[i] = PipelineReturns(batchTasks[i])

\* Of three tasks the second one's pipeline let an exception out; the first
\* and third booked their seats.
C7_Witness ==
    /\ batchPc = "returned"
    /\ Len(batchTasks) = 3
    /\ btRaised = {2}
    /\ batchOut[2].error = "Task execution failed"
    /\ batchOut[1].success
    /\ batchOut[3].success

\* C8: run_multiple_tasks returns one result per task, result i carrying
\* the user, floor and seat of task i, in whatever order the pipelines
\* ended; for an empty list it returns an empty list.
C8_ResultPerTask ==
    batchPc = "returned" =>
        /\ Len(batchOut) = Len(batchTasks)
        /\ batchTasks = <<>> => batchOut = <<>>
        /\ \A i \in 1..Len(batchTasks) :
              /\ batchOut[i].user = batchTasks[i].user_name
              /\ batchOut[i].floor_id = batchTasks[i].floor_id
              /\ batchOut[i].seat_number = batchTasks[i].seat_number

\* Four results were returned after a later pipeline ended before an
\* earlier one.
C8_Witness ==
    /\ batchPc = "returned"
    /\ Len(batchTasks) = 4
    /\ Len(batchOut) = 4
    /\ btOutOfOrder

\* ------------------------------------------------- run_booking_with_retry

MaxGlobalRetries == 3

ClampedRetriesUnclamped(g) == g

\* lines 330-332: global_max_retries after the clamp
ClampedRetries(g) == IF g < 1 THEN 1 ELSE g

BackoffSecondsConstant(global_attempt) == 2

\* line 353: wait_time
BackoffSeconds(global_attempt) == 2 * (global_attempt + 1)

\* line 352: whether global attempt global_attempt (from 0) is followed by a
\* sleep and, by line 336, another attempt
RetriesAfter(global_attempt, g) == global_attempt < ClampedRetries(g) - 1

\* lines 376-386: the result returned when the loop has ended
FinalResult(t, last_result) ==
    IF last_result = NoResult
    THEN FailureResult(t, "All global attempts failed: No result available")
    ELSE last_result

\* line 342: run_booking_task is called; it runs up to its login request
\* with a client of its own.
StartRun(c) ==
    /\ runCount' = runCount + 1
    /\ pc' = [pc EXCEPT ![c] = "login"]
    /\ uid' = [uid EXCEPT ![c] = ""]
    /\ seatId' = [seatId EXCEPT ![c] = NoSeat]
    /\ attempt' = [attempt EXCEPT ![c] = 0]
    /\ lastError' = [lastError EXCEPT ![c] = "Unknown error"]
    /\ windowWait' = [windowWait EXCEPT ![c] = 0]
    /\ presult' = [presult EXCEPT ![c] = NoResult]
    /\ grdPc' = [grdPc EXCEPT ![c] = "idle"]
    /\ grdRet' = [grdRet EXCEPT ![c] = NoTopology]

\* run_booking_with_retry is called (lines 326-342).  With no attempt
\* allowed the loop is not entered and lines 376-386 return.
RunBookingWithRetry(c) ==
    /\ retryPc = "ready"
    /\ globalAttempt' = 0
    /\ IF ClampedRetries(retryG) >= 1
       THEN /\ retryPc' = "running"
            /\ StartRun(c)
            /\ UNCHANGED retryOut
       ELSE /\ retryPc' = "returned"
            /\ retryOut' = FinalResult(ptask[c], lastResult)
            /\ UNCHANGED <<pc, uid, seatId, attempt, lastError, windowWait, presult,
                           grdPc, grdRet, runCount>>
    /\ UNCHANGED <<splitVars, batchVars, now, cacheVars, grdForce, grdIdx, grdRooms,
                   grdResult, ghostVars, ptask, pipeLog, retryG, lastResult,
                   backoffLog>>

\* run_booking_task has returned (lines 343-357, 376-386).  It returns a
\* result whatever happens inside it, so the handler of lines 362-374 has
\* nothing to catch.
RunReturned(c) ==
    /\ retryPc = "running"
    /\ pc[c] = "done"
    /\ lastResult' = presult[c]
    /\ IF presult[c].success
       THEN /\ retryOut' = presult[c]
            /\ retryPc' = "returned"
            /\ UNCHANGED backoffLog
       ELSE IF RetriesAfter(globalAttempt, retryG)
            THEN /\ backoffLog' = Append(backoffLog, BackoffSeconds(globalAttempt))
                 /\ retryPc' = "backoff"
                 /\ UNCHANGED retryOut
            ELSE /\ retryOut' = FinalResult(ptask[c], presult[c])
                 /\ retryPc' = "returned"
                 /\ UNCHANGED backoffLog
    /\ UNCHANGED <<splitVars, batchVars, now, cacheVars, grdVars, ghostVars, pipeVars,
                   pipeLog, retryG, globalAttempt, runCount>>

\* The sleep of line 357 ends and the next global attempt starts.
BackoffElapsed(c) ==
    /\ retryPc = "backoff"
    /\ now' = now + backoffLog[Len(backoffLog)]
    /\ globalAttempt' = globalAttempt + 1
    /\ retryPc' = "running"
    /\ StartRun(c)
    /\ UNCHANGED <<splitVars, batchVars, cacheVars, grdForce, grdIdx, grdRooms,
                   grdResult, ghostVars, ptask, pipeLog, retryG, lastResult, retryOut,
                   backoffLog>>

\* The task is cancelled during the sleep of line 357: the CancelledError
\* leaves run_booking_with_retry.
CancelBackoff(c) ==
    /\ retryPc = "backoff"
    /\ cancelledAt[c] = ""
    /\ cancelledAt' = [cancelledAt EXCEPT ![c] = "backoff"]
    /\ retryPc' = "raised"
    /\ UNCHANGED <<splitVars, batchVars, now, cacheVars, grdVars, ghostVars, pipeVars,
                   loginCalls, reserveCalls, attemptSleeps, sleptSeconds, lastErrorAt,
                   reserveUid, reserveRequest, retryG,
                   globalAttempt, lastResult, retryOut, runCount, backoffLog>>

RetryTasks ==
    [user_name : {"u1"}, password : {"pw"}, floor_id : {"1547", "2001"},
     seat_number : {"12"},
     begin_time : {Epoch + 10 * SecondsPerHour,
                   Epoch + SecondsPerDay + 10 * SecondsPerHour},
     duration : {2}, max_trials : {1, 2}, interval : {1}]

InitRetry ==
    /\ InitSplitIdle
    /\ InitClock
    /\ InitCache
    /\ InitClients
    /\ ptask \in [Clients -> RetryTasks \cup {IdleTask}]
    /\ \A c \in Clients : ptask[c] = IdleTask <=> c \notin Pipelines
    /\ pc = [c \in Clients |-> "idle"]
    /\ uid = [c \in Clients |-> ""]
    /\ seatId = [c \in Clients |-> NoSeat]
    /\ attempt = [c \in Clients |-> 0]
    /\ lastError = [c \in Clients |-> "Unknown error"]
    /\ windowWait = [c \in Clients |-> 0]
    /\ presult = [c \in Clients |-> NoResult]
    /\ loginCalls = [c \in Clients |-> 0]
    /\ reserveCalls = [c \in Clients |-> 0]
    /\ attemptSleeps = [c \in Clients |-> 0]
    /\ sleptSeconds = [c \in Clients |-> 0]
    /\ lastErrorAt = [c \in Clients |-> 0]
    /\ reserveUid = [c \in Clients |-> ""]
    /\ reserveRequest = [c \in Clients |-> NoRequest]
    /\ cancelledAt = [c \in Clients |-> ""]
    /\ InitBatchIdle
    /\ retryPc = "ready"
    /\ retryG \in (0 - 1)..MaxGlobalRetries
    /\ globalAttempt = 0
    /\ lastResult = NoResult
    /\ retryOut = NoResult
    /\ runCount = 0
    /\ backoffLog = <<>>

NextRetry ==
    \/ \E c \in Pipelines : RunBookingWithRetry(c)
    \/ \E c \in Pipelines : RunReturned(c)
    \/ \E c \in Pipelines : BackoffElapsed(c)
    \/ \E c \in Pipelines : CancelBackoff(c)
    \/ \E c \in Pipelines : \E reply \in {"ok", "rejected", "error"} : Login(c, reply)
    \/ \E c \in Pipelines : GetSeatId(c)
    \/ \E c \in Pipelines : GetCache(c)
    \/ \E c \in Pipelines : \E ok \in BOOLEAN : CategoryListReply(c, ok)
    \/ \E c \in Pipelines : \E ok \in BOOLEAN : RoomReply(c, ok)
    \/ \E c \in Pipelines : \E ok \in BOOLEAN : SeatsReply(c, ok)
    \/ \E c \in Pipelines : SetCache(c)
    \/ \E c \in Pipelines : SeatResolved(c)
    \/ \E c \in Pipelines : WindowElapsed(c)
    \/ \E c \in Pipelines : \E reply \in ReserveReplies : ConfirmSeat(c, reply)
    \/ \E c \in Pipelines : IntervalElapsed(c)
    \/ \E c \in Pipelines : Cancel(c)

SpecRetry == InitRetry /\ [][NextRetry]_vars

Max(a, b) == IF a >= b THEN a ELSE b

\* ---------------------------------------------------------- SpecResults

\* run_multiple_tasks with every way a bounded_task can end, or
\* run_booking_with_retry over the steps of run_booking_task.
InitResults == InitBatch \/ InitRetry

\* The ways the pipeline of task i ends.  Exceptions are raised in the
\* first MaxFailures pipelines only: the tasks alternate between the two
\* kinds of BatchTask, so these positions stand for the others.
OutcomesAt(i) ==
    IF i <= MaxFailures THEN PipelineOutcomes \cup CancelOutcomes
    ELSE CancelOutcomes

NextResults ==
    \/ RunMultipleTasks
    \/ \E i \in 1..Len(batchTasks) : BoundedTaskStart(i)
    \/ \E i \in 1..Len(batchTasks) :
          \E outcome \in OutcomesAt(i) : PipelineEnds(i, outcome)
    \/ \E i \in 1..Len(batchTasks) : WaiterCancelled(i)
    \/ GatherReturns
    \/ NextRetry

SpecResults == InitResults /\ [][NextResults]_vars

\* The error texts the three functions give their failed results (lines
\* 123, 133, 148, 156, 253, 296, 321, 372, 383), without the details they
\* append.
FailureReasons ==
    {"Login failed", "Seat not found or invalid seat number", "Task cancelled",
     "Unexpected error", "Failed after attempts", "Task execution failed",
     "Batch execution failed", "Global attempt failed",
     "All global attempts failed: No result available"}

\* C29: every failed result that run_booking_task or run_booking_with_retry
\* returns, and every failed element of the list run_multiple_tasks
\* returns, carries a non-empty error naming the step that failed: login,
\* seat resolution, booking (then with the number of attempts and the last
\* reason), cancellation, or an unexpected error.
C29_FailuresCarryReason ==
    /\ \A c \in Clients :
          (pc[c] = "done" /\ ~presult[c].success) =>
              /\ presult[c].error # ""
              /\ presult[c].error \in FailureReasons
              /\ presult[c].error = "Failed after attempts" =>
                    /\ presult[c].error_attempts = ptask[c].max_trials
                    /\ presult[c].error_reason # ""
    /\ (retryPc = "returned" /\ ~retryOut.success) =>
          /\ retryOut.error # ""
          /\ retryOut.error \in FailureReasons
          /\ retryOut.error = "Failed after attempts" =>
                /\ retryOut.error_attempts >= 1
                /\ retryOut.error_reason # ""
    /\ batchPc = "returned" =>
          \A i \in 1..Len(batchOut) :
              ~batchOut[i].success =>
                  /\ batchOut[i].error # ""
                  /\ batchOut[i].error \in FailureReasons
                  /\ batchOut[i].user = batchTasks[i].user_name

\* A returned batch whose first four pipelines ended in four ways: raised
\* inside run_booking_task, raised out of it, cancelled, seat not found.
C29_Witness ==
    /\ batchPc = "returned"
    /\ Len(batchOut) >= 4
    /\ batchOut[1].error = "Unexpected error"
    /\ batchOut[2].error = "Task execution failed"
    /\ batchOut[3].error = "Task cancelled"
    /\ batchOut[4].error = "Seat not found or invalid seat number"

\* C15: once a task's run has been cancelled, no further login or reserve
\* call is made for it, also when run_booking_with_retry has global
\* attempts left.
C15_CancellationTerminal ==
    [][\A c \in Pipelines :
          cancelledAt[c] # "" =>
              /\ loginCalls'[c] = loginCalls[c]
              /\ reserveCalls'[c] = reserveCalls[c]]_vars

\* C17: run_booking_with_retry(task, g) calls run_booking_task at least once
\* and at most max(1, g) times; it goes on to another call only after a
\* failed result; what it returns is the result of its last call, which is
\* the first successful one or, with none, that of call number max(1, g).
C17_RetryRuns ==
    \A c \in Pipelines :
        /\ retryPc \in {"running", "backoff", "returned"} =>
              /\ runCount >= 1
              /\ runCount <= Max(1, retryG)
        /\ retryPc = "backoff" =>
              /\ lastResult.success = FALSE
              /\ runCount < Max(1, retryG)
        /\ retryPc = "returned" =>
              /\ pc[c] = "done"
              /\ retryOut = presult[c]
              /\ retryOut.success \/ runCount = Max(1, retryG)
              /\ ~ENABLED BackoffElapsed(c)
              /\ ~ENABLED RunReturned(c)

\* Three attempts allowed: two runs failed and the third booked the seat.
C17_Witness ==
    /\ retryPc = "returned"
    /\ retryG = 3
    /\ runCount = 3
    /\ retryOut.success

\* C18: the sleep after the i-th failed global attempt (from 1) lasts 2*i
\* seconds; every attempt but the first comes after exactly one such sleep,
\* and there is none after a success or after the last allowed attempt.
C18_LinearBackoff ==
    /\ \A i \in 1..Len(backoffLog) : backoffLog[i] = 2 * i
    /\ retryPc \in {"running", "returned"} => Len(backoffLog) = runCount - 1
    /\ retryPc = "backoff" =>
          /\ Len(backoffLog) = runCount
          /\ lastResult.success = FALSE
          /\ runCount < Max(1, retryG)
    /\ (retryPc = "returned" /\ retryOut.success = FALSE) =>
          Len(backoffLog) = Max(1, retryG) - 1

\* Three failed attempts of three: sleeps of 2 and 4 seconds, none after the
\* third.
C18_Witness ==
    /\ retryPc = "returned"
    /\ retryG = 3
    /\ retryOut.success = FALSE
    /\ backoffLog = <<2, 4>>

\* C16: when the pipeline of one task of a batch is cancelled while it is
\* suspended, run_multiple_tasks still returns a list, one entry per task;
\* the entry of the cancelled task is the failed result "Task cancelled",
\* the other pipelines are not stopped, and the entry of each of them is the
\* result its own pipeline produced.
C16_CancelIsolated ==
    \A k \in 1..Len(batchTasks) :
        (/\ [task |-> k, at |-> "pipeline"] \in btCancelled
         /\ \A cancel \in btCancelled : cancel.at = "pipeline") =>
            /\ gathered[k] = FailureResult(batchTasks[k], "Task cancelled")
            /\ batchPc \in {"gathering", "returned"}
            /\ batchPc = "gathering" =>
                  /\ \A i \in InFlight : ENABLED PipelineEnds(i, "returns")
                  /\ (\A i \in 1..Len(batchTasks) : btPc[i] = "done") =>
                        ENABLED GatherReturns
            /\ batchPc = "returned" =>
                  /\ Len(batchOut) = Len(batchTasks)
                  /\ batchOut[k] = FailureResult(batchTasks[k], "Task cancelled")
                  /\ batchOut[k].success = FALSE
                  /\ \A i \in 1..Len(batchTasks) :
                        [task |-> i, at |-> "pipeline"] \notin btCancelled =>
                            /\ btPc[i] = "done"
                            /\ batchOut[i] = PipelineReturns(batchTasks[i])

\* Of three tasks the second was cancelled in its pipeline while the first
\* was still running; the first and third booked their seats.
C16_Witness ==
    /\ batchPc = "returned"
    /\ Len(batchTasks) = 3
    /\ btCancelled = {[task |-> 2, at |-> "pipeline"]}
    /\ btOutOfOrder
    /\ batchOut[2].error = "Task cancelled"
    /\ batchOut[1].success
    /\ batchOut[3].success

\* ------------------------------------------------- the legacy entry point
\* main.py (create_task_from_config, parse_config, run, main) over
\* utils/hdulib.py (HDULIB, get_seat_by_room_and_floor).  HDULIB works
\* through a synchronous httpx.Client: a run(task) gives up the event loop
\* only at its two asyncio.sleep calls.

\* main.py line 26, line 30: floor_id in ["1547", "1548"]
LegacyCapped(floor_id) == floor_id \in {"1547", "1548"}

\* line 26 and line 79: days from today to the day that can be booked
LegacyDayOffset(floor_id) == IF LegacyCapped(floor_id) THEN 1 ELSE 2

\* line 30
LegacyTaskDuration(floor_id, duration) ==
    Min(duration, IF LegacyCapped(floor_id) THEN 4 ELSE duration)

\* datetime.replace(hour=...) raises ValueError outside 0..23
ReplaceHourRaises(hour) == hour < 0 \/ hour > 23

\* lines 37-39: start_time.replace(hour=begin_time, ...).timestamp()
LegacyTaskBeginTime(start_time, hour) == ReplaceHour(start_time, hour)

\* What create_task_from_config ends with: the list it returns, or an
\* exception.
LegacyReturn(tasks) == [raised |-> FALSE, tasks |-> tasks]
LegacyRaise == [raised |-> TRUE, tasks |-> <<>>]

RECURSIVE LegacyLoop(_, _, _, _, _)
\* lines 29-46: the while loop
LegacyLoop(cfg, duration, begin_hour, start_time, acc) ==
    IF duration > 0
    THEN LET task_duration == LegacyTaskDuration(cfg.floor_id, duration)
         IN  IF ReplaceHourRaises(begin_hour)
             THEN LegacyRaise
             ELSE LegacyLoop(cfg, duration - task_duration,
                             begin_hour + task_duration, start_time,
                             Append(acc,
                                [cfg EXCEPT !.begin_time =
                                       LegacyTaskBeginTime(start_time, begin_hour),
                                     !.duration = task_duration]))
    ELSE LegacyReturn(acc)

\* create_task_from_config, lines 14-48
CreateTaskFromConfig(cfg, dtnow) ==
    LegacyLoop(cfg, cfg.duration, cfg.begin_time,
               dtnow + LegacyDayOffset(cfg.floor_id) * SecondsPerDay, <<>>)

\* ----------------------------------------------------- SpecLegacyCreate

\* The config_dict of one user after int(...): every begin hour and every
\* duration the claim names, on a capped and on an uncapped floor.
LegacyCreateInputs ==
    [user_name : {"u1"}, password : {"pw"}, floor_id : {"1547", "1548", "1001"},
     seat_number : {"12"}, begin_time : 0..23, duration : MinDuration..MaxDuration,
     max_trials : {3}, interval : {2}]

InitLegacyCreate ==
    /\ configDict \in LegacyCreateInputs
    /\ splitTask = None
    /\ splitNow \in SplitNows
    /\ splitOut = <<>>
    /\ splitPc = "called"
    /\ InitLegacyIdle
    /\ InitClock
    /\ InitCache
    /\ InitClients
    /\ InitPipelinesIdle
    /\ InitBatchIdle
    /\ InitRetryIdle

\* One call of create_task_from_config.
LegacyCreateTask ==
    /\ splitPc = "called"
    /\ LET out == CreateTaskFromConfig(configDict, splitNow)
       IN  /\ splitOut' = out.tasks
           /\ splitPc' = IF out.raised THEN "raised" ELSE "done"
    /\ UNCHANGED <<splitTask, splitNow, configDict, legacyVars, now, cacheVars,
                   grdVars, ghostVars, pipeVars, pipeLog, batchVars, retryVars>>

NextLegacyCreate == LegacyCreateTask

SpecLegacyCreate == InitLegacyCreate /\ [][NextLegacyCreate]_vars

\* C34: for every begin hour in 0..23 and duration in 1..12 the legacy
\* create_task_from_config returns (it does not raise) sub-tasks whose
\* durations sum to the requested duration, each at most 4 hours on floors
\* 1547 and 1548, and each with a begin_time that is an absolute timestamp
\* on the hour, also when begin hour plus duration passes midnight.
C34_LegacySplit ==
    splitPc \in {"done", "raised"} =>
        /\ splitPc = "done"
        /\ SumDurations(splitOut) = configDict.duration
        /\ \A i \in 1..Len(splitOut) :
              /\ splitOut[i].duration >= 1
              /\ LegacyCapped(configDict.floor_id) => splitOut[i].duration <= 4
              /\ splitOut[i].begin_time > MinTimestamp
              /\ splitOut[i].begin_time % SecondsPerHour = 0

\* ------------------------------------------------------------ SpecLegacy

\* datetime.day for the dates the model reaches: Epoch is 8 January 2022
\* and no run goes beyond that month.
DayOfMonth(t) == DateOf(t) - DateOf(Epoch) + 8

\* hdulib.py 51-67: get_seat_by_room_and_floor
GetSeatByRoomAndFloor(rooms, floor_id, seat_number) ==
    IF DictGet(RoomNameDict, floor_id) = "" \/ DictGet(FloorNameDict, floor_id) = ""
    THEN 0
    ELSE SeatLookup(rooms, DictGet(RoomNameDict, floor_id),
                    DictGet(FloorNameDict, floor_id), seat_number)

\* hdulib.py 230-231: what get_rooms_dict returns when its requests succeed
LegacyRoomsDict == Topology({RoomItems[k] : k \in 1..Len(RoomItems)}, 1)

\* main.py 75-77: a begin_time already past is moved to the next day
LegacyAdjusted(begin_time, dtnow) ==
    IF begin_time < dtnow THEN begin_time + SecondsPerDay ELSE begin_time

\* main.py 79-84: the run sleeps until 20:00
LegacyWaits(begin_time, floor_id, dtnow) ==
    /\ DayOfMonth(begin_time) - LegacyDayOffset(floor_id) = DayOfMonth(dtnow)
    /\ HourOf(dtnow) < 20

\* The state of one run(task): where it stands, user.uid, seat_id,
\* task.begin_time, the rounds of the for loop gone through, the
\* confirm_seat calls made, and whether one of them was answered "ok".
NewRun(task) ==
    [pc |-> "new", uid |-> "", seat_id |-> NoSeat, begin_time |-> task.begin_time,
     trial |-> 0, confirms |-> 0, booked |-> FALSE]

\* A run that is executing: it holds the event loop until its next sleep.
LegacyRunning == \E i \in DOMAIN lgRun : lgRun[i].pc = "attempt"

\* main.py line 93: the for loop starts its next round, or is over
LegacyLoopPc(task, trial) == IF trial < task.max_trials THEN "attempt" ELSE "done"

RECURSIVE LegacyExtend(_, _)
\* parse_config, lines 51-59, over the config_dicts of the users; the
\* first create_task_from_config that raises ends it.
LegacyExtend(configs, dtnow) ==
    IF configs = <<>> THEN LegacyReturn(<<>>)
    ELSE LET head == CreateTaskFromConfig(Head(configs), dtnow)
             rest == LegacyExtend(Tail(configs), dtnow)
         IN  IF head.raised \/ rest.raised THEN LegacyRaise
             ELSE LegacyReturn(head.tasks \o rest.tasks)

\* main, lines 105-108, up to the await of asyncio.gather.
LegacyMain ==
    /\ lgMain = "start"
    /\ LET parsed == LegacyExtend(configDict, now)
       IN  IF parsed.raised
           THEN /\ lgMain' = "raised"
                /\ UNCHANGED <<lgTasks, lgRun>>
           ELSE /\ lgTasks' = parsed.tasks
                /\ lgRun' = [i \in 1..Len(parsed.tasks) |-> NewRun(parsed.tasks[i])]
                /\ lgMain' = "gather"
    /\ UNCHANGED <<lgRooms, splitTask, splitNow, splitOut, splitPc, configDict, now,
                   cacheVars, grdVars, ghostVars, pipeVars, pipeLog, batchVars,
                   retryVars>>

\* run, lines 62-91: the first step of run(task), from HDULIB(task) to the
\* sleep until 20:00 or to the for loop.  The steps of the runs are taken
\* in the order gather created them.  HDULIB.__init__ raises when login
\* has no uid to read (hdulib.py 130) or the topology cannot be read
\* (hdulib.py 164-228).
LegacyRunStart(i, login_ok, rooms_ok) ==
    /\ lgMain = "gather"
    /\ i \in DOMAIN lgRun
    /\ lgRun[i].pc = "new"
    /\ \A j \in 1..(i - 1) : lgRun[j].pc # "new"
    /\ ~LegacyRunning
    /\ LET task == lgTasks[i]
           fetches == lgRooms = NoTopology
           rooms == IF fetches THEN LegacyRoomsDict ELSE lgRooms
           begin_time == LegacyAdjusted(task.begin_time, now)
       IN  IF ~login_ok \/ (fetches /\ ~rooms_ok)
           THEN /\ lgRun' = [lgRun EXCEPT ![i].pc = "raised",
                                          ![i].uid = IF login_ok
                                                     THEN UidOf(task.user_name)
                                                     ELSE ""]
                /\ UNCHANGED lgRooms
           ELSE /\ lgRooms' = rooms
                /\ lgRun' = [lgRun EXCEPT
                      ![i].uid = UidOf(task.user_name),
                      ![i].seat_id = GetSeatByRoomAndFloor(rooms, task.floor_id,
                                                           task.seat_number),
                      ![i].begin_time = begin_time,
                      ![i].pc = IF LegacyWaits(begin_time, task.floor_id, now)
                                THEN "window_sleep"
                                ELSE LegacyLoopPc(task, 0)]
    /\ UNCHANGED <<lgMain, lgTasks, splitTask, splitNow, splitOut, splitPc,
                   configDict, now, cacheVars, grdVars, ghostVars, pipeVars,
                   pipeLog, batchVars, retryVars>>

\* run, lines 86-91: the sleep until 20:00 is over.
LegacyWindowElapsed(i) ==
    /\ lgMain = "gather"
    /\ i \in DOMAIN lgRun
    /\ lgRun[i].pc = "window_sleep"
    /\ ~LegacyRunning
    /\ now' = Max(now, ReplaceHour(now, 20))
    /\ lgRun' = [lgRun EXCEPT ![i].pc = LegacyLoopPc(lgTasks[i], 0)]
    /\ UNCHANGED <<lgMain, lgTasks, lgRooms, splitTask, splitNow, splitOut, splitPc,
                   configDict, cacheVars, grdVars, ghostVars, pipeVars, pipeLog,
                   batchVars, retryVars>>

\* What user.confirm_seat does: it returns "ok", returns another message,
\* or raises (the request fails, or the answer has no CODE).
LegacyReplies == {"ok", "fail", "raise"}

\* run, lines 93-98: one round of the for loop up to its sleep.  The
\* booking API books no seat for the id 0.
LegacyConfirmSeat(i, reply) ==
    /\ lgMain = "gather"
    /\ i \in DOMAIN lgRun
    /\ lgRun[i].pc = "attempt"
    /\ reply = "ok" => lgRun[i].seat_id > 0
    /\ lgRun' = [lgRun EXCEPT
          ![i].confirms = lgRun[i].confirms + 1,
          ![i].booked = reply = "ok",
          ![i].pc = CASE reply = "ok" -> "done"
                      [] reply = "fail" -> "interval_sleep"
                      [] OTHER -> "raised"]
    /\ UNCHANGED <<lgMain, lgTasks, lgRooms, splitTask, splitNow, splitOut, splitPc,
                   configDict, now, cacheVars, grdVars, ghostVars, pipeVars,
                   pipeLog, batchVars, retryVars>>

\* run, line 98: the sleep after a failed attempt is over.
LegacyIntervalElapsed(i) ==
    /\ lgMain = "gather"
    /\ i \in DOMAIN lgRun
    /\ lgRun[i].pc = "interval_sleep"
    /\ ~LegacyRunning
    /\ lgRun' = [lgRun EXCEPT
          ![i].trial = lgRun[i].trial + 1,
          ![i].pc = LegacyLoopPc(lgTasks[i], lgRun[i].trial + 1)]
    /\ UNCHANGED <<lgMain, lgTasks, lgRooms, splitTask, splitNow, splitOut, splitPc,
                   configDict, now, cacheVars, grdVars, ghostVars, pipeVars,
                   pipeLog, batchVars, retryVars>>

\* main, line 108: every run has returned and so does gather.
LegacyGatherReturns ==
    /\ lgMain = "gather"
    /\ \A i \in DOMAIN lgRun : lgRun[i].pc = "done"
    /\ lgMain' = "returned"
    /\ UNCHANGED <<lgTasks, lgRun, lgRooms, splitTask, splitNow, splitOut, splitPc,
                   configDict, now, cacheVars, grdVars, ghostVars, pipeVars,
                   pipeLog, batchVars, retryVars>>

\* main, line 108 and line 112: gather is called without
\* return_exceptions, so the exception of a run is raised in main once the
\* runs created with it have had their first step; main ends and
\* asyncio.run cancels the runs still sleeping.
LegacyGatherRaises ==
    /\ lgMain = "gather"
    /\ \E i \in DOMAIN lgRun : lgRun[i].pc = "raised"
    /\ \A i \in DOMAIN lgRun : lgRun[i].pc # "new"
    /\ ~LegacyRunning
    /\ lgMain' = "raised"
    /\ lgRun' = [i \in DOMAIN lgRun |->
                    IF lgRun[i].pc \in {"window_sleep", "interval_sleep"}
                    THEN [lgRun[i] EXCEPT !.pc = "cancelled"]
                    ELSE lgRun[i]]
    /\ UNCHANGED <<lgTasks, lgRooms, splitTask, splitNow, splitOut, splitPc,
                   configDict, now, cacheVars, grdVars, ghostVars, pipeVars,
                   pipeLog, batchVars, retryVars>>

\* The config_dict of a user: a seat that is offered, a floor without a
\* mapping, a seat that is not offered, a request parse_config fails on.
LegacyConfig(user_name, floor_id, seat_number, begin_time, duration, max_trials) ==
    [user_name |-> user_name, password |-> "pw", floor_id |-> floor_id,
     seat_number |-> seat_number, begin_time |-> begin_time,
     duration |-> duration, max_trials |-> max_trials, interval |-> 2]

LegacyUserConfigs ==
    {LegacyConfig("u1", "1547", "12", 9, 2, 2),
     LegacyConfig("u1", "1547", "12", 9, 6, 1),
     LegacyConfig("u2", "east", "12", 9, 2, 2),
     LegacyConfig("u2", "1547", "99", 9, 2, 1),
     LegacyConfig("u2", "1001", "12", 9, 1, 2),
     LegacyConfig("u1", "1547", "12", 21, 6, 2)}

\* The times of day at which main is started.
LegacyNows == {ClockStart, Epoch + 20 * SecondsPerHour + 1800}

InitLegacy ==
    /\ configDict \in [1..2 -> LegacyUserConfigs]
    /\ splitTask = None
    /\ splitNow = 0
    /\ splitOut = <<>>
    /\ splitPc = "idle"
    /\ lgMain = "start"
    /\ lgTasks = <<>>
    /\ lgRun = <<>>
    /\ lgRooms = NoTopology
    /\ now \in LegacyNows
    /\ InitCache
    /\ InitClients
    /\ InitPipelinesIdle
    /\ InitBatchIdle
    /\ InitRetryIdle

NextLegacy ==
    \/ LegacyMain
    \/ \E i \in 1..Len(lgTasks) : \E login_ok, rooms_ok \in BOOLEAN :
          LegacyRunStart(i, login_ok, rooms_ok)
    \/ \E i \in 1..Len(lgTasks) : LegacyWindowElapsed(i)
    \/ \E i \in 1..Len(lgTasks) : \E reply \in LegacyReplies :
          LegacyConfirmSeat(i, reply)
    \/ \E i \in 1..Len(lgTasks) : LegacyIntervalElapsed(i)
    \/ LegacyGatherReturns
    \/ LegacyGatherRaises

SpecLegacy == InitLegacy /\ [][NextLegacy]_vars

\* C33: in the legacy run, a seat lookup that returns 0 (unmapped floor,
\* or a seat not offered) is terminal: no confirm_seat call is made for
\* that task.
C33_LegacyResolutionTerminal ==
    \A i \in DOMAIN lgRun : lgRun[i].seat_id = 0 => lgRun[i].confirms = 0

\* C35: in the legacy main, a run that raises does not abort its
\* siblings: when main has ended, every run that did not itself raise has
\* gone through its attempts, up to an "ok" answer or max_trials of them.
C35_LegacySiblingsRun ==
    \A i \in DOMAIN lgRun :
        (lgMain \in {"raised", "returned"} /\ lgRun[i].pc # "raised") =>
            /\ lgRun[i].pc = "done"
            /\ lgRun[i].booked \/ lgRun[i].confirms = lgTasks[i].max_trials

\* ------------------------------------------------------- SpecBatchWindow
\* run_multiple_tasks over more tasks than the semaphore admits, some of
\* them with a booking window that opens later in the day.

\* Eleven tasks on floor 1547.  The task at position `open` asks for a
\* seat today, its window opened yesterday at 20:00; the others ask for
\* tomorrow, their window opens today at 20:00.
WindowBatch(open) ==
    [i \in 1..(MaxConcurrent + 1) |->
        [BatchTask(1) EXCEPT
            !.user_name = "u" \o ToString(i),
            !.begin_time = IF i = open
                           THEN Epoch + 10 * SecondsPerHour
                           ELSE Epoch + SecondsPerDay + 10 * SecondsPerHour]]

InitBatchWindow ==
    /\ InitSplitIdle
    /\ InitClock
    /\ InitCache
    /\ InitClients
    /\ InitPipelinesIdle
    /\ batchTasks \in {WindowBatch(1), WindowBatch(MaxConcurrent + 1)}
    /\ batchPc = "ready"
    /\ semValue = 0
    /\ btPc = [i \in 1..Len(batchTasks) |-> "pending"]
    /\ gathered = [i \in 1..Len(batchTasks) |-> NoResult]
    /\ batchOut = <<>>
    /\ btRaised = {}
    /\ btOutOfOrder = FALSE
    /\ btCancelled = {}
    /\ InitRetryIdle

\* run_booking_task of task i has logged in and resolved its seat, and
\* _wait_for_booking_window goes to sleep (lines 181-188), inside the
\* `async with semaphore` of bounded_task (lines 277-278).
BatchWindowSleep(i) ==
    /\ batchPc = "gathering"
    /\ btPc[i] = "running"
    /\ WaitSeconds(batchTasks[i], now) > 0
    /\ btPc' = [btPc EXCEPT ![i] = "window_sleep"]
    /\ UNCHANGED <<batchTasks, batchPc, semValue, gathered, batchOut, btRaised,
                   btOutOfOrder, btCancelled>>
    /\ UNCHANGED <<splitVars, now, cacheVars, grdVars, ghostVars, pipeVars, pipeLog,
                   retryVars>>

\* The sleep of _wait_for_booking_window is over (line 188).
BatchWindowElapsed(i) ==
    /\ batchPc = "gathering"
    /\ btPc[i] = "window_sleep"
    /\ now' = Max(now, BookingOpensTime(batchTasks[i]))
    /\ btPc' = [btPc EXCEPT ![i] = "running"]
    /\ UNCHANGED <<batchTasks, batchPc, semValue, gathered, batchOut, btRaised,
                   btOutOfOrder, btCancelled>>
    /\ UNCHANGED <<splitVars, cacheVars, grdVars, ghostVars, pipeVars, pipeLog,
                   retryVars>>

\* The pipeline of task i makes its attempts, once its window is open, and
\* returns its result (lines 139-140).
BatchAttemptsEnd(i) ==
    /\ WaitSeconds(batchTasks[i], now) = 0
    /\ PipelineEnds(i, "returns")

NextBatchWindow ==
    \/ RunMultipleTasks
    \/ \E i \in 1..Len(batchTasks) : BoundedTaskStart(i)
    \/ \E i \in 1..Len(batchTasks) : BatchWindowSleep(i)
    \/ \E i \in 1..Len(batchTasks) : BatchWindowElapsed(i)
    \/ \E i \in 1..Len(batchTasks) : BatchAttemptsEnd(i)
    \/ GatherReturns

SpecBatchWindow == InitBatchWindow /\ [][NextBatchWindow]_vars

\* The bounded_tasks that hold the semaphore.
Admitted == {i \in 1..Len(batchTasks) : btPc[i] \in {"running", "window_sleep"}}

InitLiveBatch ==
    /\ InitBatch
    /\ Len(batchTasks) \in {0, MaxTasks}

\* Two pipelines with two attempts each; the window of the second opens
\* later in the day.
InitLivePair ==
    /\ InitPair
    /\ \A c \in Clients : ptask[c].max_trials = 2
    /\ ptask[1].begin_time = Epoch + 10 * SecondsPerHour
    /\ ptask[2].begin_time = Epoch + SecondsPerDay + 10 * SecondsPerHour

InitLive == InitLiveBatch \/ InitLivePair

\* The steps of run_booking_task, for every client.
NextPipelines ==
    \/ \E c \in Clients : \E reply \in {"ok", "rejected", "error"} : Login(c, reply)
    \/ \E c \in Clients : GetSeatId(c)
    \/ \E c \in Clients : GetCache(c)
    \/ \E c \in Clients : \E ok \in BOOLEAN : CategoryListReply(c, ok)
    \/ \E c \in Clients : \E ok \in BOOLEAN : RoomReply(c, ok)
    \/ \E c \in Clients : \E ok \in BOOLEAN : SeatsReply(c, ok)
    \/ \E c \in Clients : SetCache(c)
    \/ \E c \in Clients : SeatResolved(c)
    \/ \E c \in Clients : WindowElapsed(c)
    \/ \E c \in Clients : \E reply \in ReserveReplies : ConfirmSeat(c, reply)
    \/ \E c \in Clients : IntervalElapsed(c)

\* The ways the pipeline at position i of the batch ends: an exception
\* is followed at the first MaxFailures positions only.
LiveOutcomesAt(i) == IF i <= MaxFailures THEN PipelineOutcomes ELSE {"returns"}

NextLiveBatch ==
    \/ RunMultipleTasks
    \/ \E i \in 1..Len(batchTasks) : BoundedTaskStart(i)
    \/ \E i \in 1..Len(batchTasks) : \E outcome \in LiveOutcomesAt(i) :
          PipelineEnds(i, outcome)
    \/ GatherReturns

NextLive == NextLiveBatch \/ NextPipelines

\* The event loop is never idle while an answer, a timer or a coroutine
\* that can run is pending.
FairLive == WF_vars(NextLive)

SpecLive == InitLive /\ [][NextLive]_vars /\ FairLive

\* C39: when every external call returns and every sleep elapses,
\* run_multiple_tasks returns, with one result for every task, and every
\* pipeline that has started comes to its end with a result: none waits for
\* ever for the semaphore or for the lock of the rooms cache.
C39_BatchTerminates ==
    /\ (batchPc = "ready") ~>
          (/\ batchPc = "returned"
           /\ Len(batchOut) = Len(batchTasks)
           /\ \A i \in 1..Len(batchTasks) : btPc[i] = "done")
    /\ \A c \in Clients :
          (pc[c] = "login") ~> (pc[c] = "done" /\ grdPc[c] \in {"idle", "returned"})

\* A batch of eleven tasks has returned its eleven results: the eleventh
\* bounded_task had to wait for the semaphore.
C39_Witness ==
    /\ batchPc = "returned"
    /\ Len(batchTasks) = MaxConcurrent + 1
    /\ Len(batchOut) = MaxConcurrent + 1
    /\ semValue = MaxConcurrent

=============================================================================
